---- MODULE Spec2Model ----
(***************************************************************************)
(* Behavioural model of osx-proxmox-next: the plan executor (apply_plan),  *)
(* the external-tool adapter, the snapshot module, the configuration       *)
(* validator, the two front-ends that drive them (CLI and TUI wizard) and  *)
(* the downloader's atomic file-download primitive and protocol flows.     *)
(***************************************************************************)
EXTENDS Integers, Sequences, FiniteSets, TLC

\* ------------------------------------------------------------------------
\* Bounds of the model
\* ------------------------------------------------------------------------

\* longest plan handed directly to apply_plan
MaxSteps == 3

\* apply workers one wizard session may start
MaxApplies == 1

\* chunks of _CHUNK_SIZE bytes in the body of a downloaded file
NumChunks == 2

VARIABLES
    \* --- executor.apply_plan activation ---
    steps,        \* the plan being applied (sequence of PlanStep)
    execute,      \* apply_plan's execute argument
    on_step,      \* TRUE iff a step callback was passed
    idx,          \* loop index of apply_plan (1-based, 0 before the loop)
    results,      \* list[StepResult] built so far
    xpc,          \* position of apply_plan
    ret,          \* ApplyResult returned by apply_plan (None before return)
    caller,       \* who invoked apply_plan
    plan_config,  \* the VmConfig a direct caller handed to build_plan
    \* --- the host ---
    host_ready,   \* TRUE iff every preflight check passes on this host
    assets,       \* which required images exist at their resolved paths
    \* --- cli.run_cli ---
    argv,         \* the parsed command line (None before run_cli is entered)
    exit_code,    \* value returned by run_cli (NoExit while running)
    snapshot,     \* RollbackSnapshot taken by the front-end (None if none)
    \* --- app.NextApp (the TUI wizard) and its apply worker thread ---
    form,               \* the configuration currently in the form
    last_config,        \* NextApp.last_config
    last_steps,         \* NextApp.last_steps
    apply_running,      \* NextApp.apply_running
    preflight_has_run,  \* NextApp.preflight_has_run
    preflight_ok,       \* NextApp.preflight_ok
    wpc,                \* position of the apply worker thread
    w_execute,          \* the execute flag the worker closure captured
    applies,            \* number of apply workers started so far
    \* --- observable history: adapter invocations, callbacks, snapshots ... ---
    log,
    \* --- downloader.py ---
    fs,               \* the destination directory: path -> [exists, data]
    flow,             \* the public function called: opencore, recovery or file
    fpc,              \* position of that function
    dl_dest,          \* dest of the running _download_file[_with_token] call
    with_token,       \* TRUE iff that call is _download_file_with_token
    attempt,          \* its loop variable, range(_MAX_RETRIES)
    dpc,              \* its position: idle, try, stream, rename, returned, raised
    clean_start,      \* neither dest nor dest.part existed when it was called
    attempt_results,  \* how each finished attempt of the call ended
    attempts_made,    \* _do_download calls made by the call
    sleeps,           \* the back-off delays the call has slept
    total,            \* Content-Length of the attempt's response (0 if none)
    dl_error,         \* the exception the flow raised (None if none)
    reqs,             \* requests issued so far, per endpoint
    release,          \* the release the GitHub API returned (None if none)
    session,          \* what the recovery-session response carried
    image_info,       \* the keys of the image-info response (None if none)
    file_starts,      \* _do_download calls made by the whole flow
    \* --- one call of a pure function: validate_config, build_plan, _find_iso ---
    p_pc,             \* "init" before the call, then the function called
    p_config,         \* the VmConfig passed (the caller's object, before the call)
    p_gen,            \* what the random sources return during the call
    p_cpu,            \* what detect_cpu_info finds on the host
    p_dir,            \* the file names in the ISO search root
    p_out             \* what the call returned, and the VmConfig after it

exec_vars == <<steps, execute, on_step, idx, results, xpc, ret, caller, plan_config>>
host_vars == <<host_ready, assets>>
cli_vars == <<argv, exit_code, snapshot>>
tui_vars == <<form, last_config, last_steps, apply_running,
              preflight_has_run, preflight_ok, wpc, w_execute, applies>>
front_vars == <<steps, execute, on_step, idx, results, xpc, ret, caller, plan_config,
                host_ready, assets, argv, exit_code, snapshot,
                form, last_config, last_steps, apply_running,
                preflight_has_run, preflight_ok, wpc, w_execute, applies, log>>
file_vars == <<dl_dest, with_token, attempt, dpc, clean_start, attempt_results,
               attempts_made, sleeps, total>>
proto_vars == <<reqs, release, session, image_info>>
dl_vars == <<fs, flow, fpc, dl_dest, with_token, attempt, dpc, clean_start,
             attempt_results, attempts_made, sleeps, total, dl_error,
             reqs, release, session, image_info, file_starts>>
pure_vars == <<p_pc, p_config, p_gen, p_cpu, p_dir, p_out>>
vars == <<front_vars, dl_vars, pure_vars>>

None == [none |-> TRUE]

\* run_cli has not returned yet
NoExit == -1

\* no pure function is being exercised
PureOff ==
    /\ p_pc = "off"
    /\ p_config = None
    /\ p_gen = None
    /\ p_cpu = None
    /\ p_dir = {}
    /\ p_out = None

\* ------------------------------------------------------------------------
\* infrastructure.py: the external-tool adapter
\* ------------------------------------------------------------------------

\* what subprocess.run can do with an argv: exit 0, exit non-zero, exceed the
\* 300 s timeout, or fail to launch the program at all (OSError)
SubprocessOutcomes == {"rc0", "rc1", "timeout", "oserror"}

\* ProxmoxAdapter.run: only TimeoutExpired is caught
ProxmoxAdapter_run(outcome) ==
    CASE outcome = "rc0"     -> [raised |-> FALSE, ok |-> TRUE,  returncode |-> 0]
      [] outcome = "rc1"     -> [raised |-> FALSE, ok |-> FALSE, returncode |-> 1]
      [] outcome = "timeout" -> [raised |-> FALSE, ok |-> FALSE, returncode |-> 124]
      [] outcome = "oserror" -> [raised |-> TRUE,  ok |-> FALSE, returncode |-> -1]

\* ------------------------------------------------------------------------
\* executor.py: apply_plan
\* ------------------------------------------------------------------------

StepResult(step, ok, returncode) ==
    [title |-> step.title, ok |-> ok, returncode |-> returncode]

ApplyResult(ok, res) == [ok |-> ok, results |-> res]

Event(ev, i, result) == [ev |-> ev, idx |-> i, result |-> result]

\* (mutation) the callback is delivered only before a step
Callback_before_only(cb, i, result) ==
    IF cb /\ result = None THEN <<Event("on_step", i, result)>> ELSE <<>>

\* on_step(idx, total, step, result), when a callback was passed
Callback(cb, i, result) == IF cb THEN <<Event("on_step", i, result)>> ELSE <<>>

\* apply_plan has been entered (history only)
EnterEvent == Event("apply_plan", 0, None)

\* (mutation) the dry-run branch is never taken
DryRun_never(ex) == FALSE

\* line 52: `if not execute`
DryRun(ex) == ~ex

\* (mutation) the loop goes on after a failing step
StopsAt_never(cmd_result) == FALSE

\* line 73: `if not cmd_result.ok: return`
StopsAt(cmd_result) == ~cmd_result.ok

\* entry of apply_plan (lines 31-47): fresh results, loop not yet started
apply_plan_enter(st, ex, cb, who) ==
    /\ steps' = st
    /\ execute' = ex
    /\ on_step' = cb
    /\ idx' = 0
    /\ results' = <<>>
    /\ xpc' = "loop"
    /\ ret' = None
    /\ caller' = who

\* one loop iteration up to the point where the command is handed to the
\* adapter (lines 48-61); a dry-run iteration completes here (lines 52-59)
LoopStep ==
    /\ xpc = "loop"
    /\ idx < Len(steps)
    /\ idx' = idx + 1
    /\ LET step == steps[idx + 1]
           before == Callback(on_step, idx + 1, None)
       IN IF DryRun(execute)
          THEN LET result == StepResult(step, TRUE, 0)
               IN /\ results' = Append(results, result)
                  /\ log' = log \o before \o Callback(on_step, idx + 1, result)
                  /\ xpc' = "loop"
          ELSE /\ results' = results
               /\ log' = log \o before \o <<Event("run", idx + 1, None)>>
               /\ xpc' = "run"
    /\ UNCHANGED <<steps, execute, on_step, ret, caller, plan_config>>
    /\ UNCHANGED <<host_vars, cli_vars, tui_vars>>

\* the adapter comes back (lines 61-74): record the result, call back, and
\* return at the first result that is not ok; an exception from the adapter
\* propagates out of apply_plan
RunStep ==
    /\ xpc = "run"
    /\ \E outcome \in SubprocessOutcomes :
         LET cmd_result == ProxmoxAdapter_run(outcome)
             result == StepResult(steps[idx], cmd_result.ok, cmd_result.returncode)
         IN IF cmd_result.raised
            THEN /\ xpc' = "raised"
                 /\ UNCHANGED <<results, ret, log>>
            ELSE /\ results' = Append(results, result)
                 /\ log' = log \o Callback(on_step, idx, result)
                 /\ IF StopsAt(cmd_result)
                    THEN /\ ret' = ApplyResult(FALSE, results')
                         /\ xpc' = "returned"
                    ELSE /\ ret' = ret
                         /\ xpc' = "loop"
    /\ UNCHANGED <<steps, execute, on_step, idx, caller, plan_config>>
    /\ UNCHANGED <<host_vars, cli_vars, tui_vars>>

\* the loop is exhausted (line 76)
LoopExit ==
    /\ xpc = "loop"
    /\ idx = Len(steps)
    /\ ret' = ApplyResult(TRUE, results)
    /\ xpc' = "returned"
    /\ UNCHANGED <<steps, execute, on_step, idx, results, caller, plan_config, log>>
    /\ UNCHANGED <<host_vars, cli_vars, tui_vars>>

\* ------------------------------------------------------------------------
\* domain.py: VmConfig and validate_config
\* (strings that a regex inspects are sequences of one-character strings)
\* ------------------------------------------------------------------------

Digits == {"0", "1", "2", "3", "4", "5", "6", "7", "8", "9"}
HexUpper == Digits \cup {"A", "B", "C", "D", "E", "F"}
UpperAZ == {"A", "B", "C", "D", "E", "F", "G", "H", "I", "J", "K", "L", "M",
            "N", "O", "P", "Q", "R", "S", "T", "U", "V", "W", "X", "Y", "Z"}
LowerAZ == {"a", "b", "c", "d", "e", "f", "g", "h", "i", "j", "k", "l", "m",
            "n", "o", "p", "q", "r", "s", "t", "u", "v", "w", "x", "y", "z"}
AlNum == Digits \cup UpperAZ \cup LowerAZ

\* (mutation) the newest release is still flagged as a preview
SUPPORTED_MACOS_tahoe_preview ==
    [m \in {"ventura", "sonoma", "sequoia", "tahoe"} |->
        CASE m = "ventura" -> [label |-> "macOS Ventura 13", major |-> 13, channel |-> "stable"]
          [] m = "sonoma"  -> [label |-> "macOS Sonoma 14",  major |-> 14, channel |-> "stable"]
          [] m = "sequoia" -> [label |-> "macOS Sequoia 15", major |-> 15, channel |-> "stable"]
          [] m = "tahoe"   -> [label |-> "macOS Tahoe 26",   major |-> 26, channel |-> "preview"]]

SUPPORTED_MACOS ==
    [m \in {"ventura", "sonoma", "sequoia", "tahoe"} |->
        CASE m = "ventura" -> [label |-> "macOS Ventura 13", major |-> 13, channel |-> "stable"]
          [] m = "sonoma"  -> [label |-> "macOS Sonoma 14",  major |-> 14, channel |-> "stable"]
          [] m = "sequoia" -> [label |-> "macOS Sequoia 15", major |-> 15, channel |-> "stable"]
          [] m = "tahoe"   -> [label |-> "macOS Tahoe 26",   major |-> 26, channel |-> "stable"]]

\* re.fullmatch(r"<cls>+", s) / (r"<cls>*", s) / (r"<cls>{n}", s)
AllIn(s, cls) == \A i \in 1..Len(s) : s[i] \in cls
MatchPlus(s, cls) == Len(s) >= 1 /\ AllIn(s, cls)
MatchExactly(s, cls, n) == Len(s) = n /\ AllIn(s, cls)

\* r"vmbr[0-9]+"
MatchBridge(s) ==
    /\ Len(s) >= 5
    /\ SubSeq(s, 1, 4) = <<"v", "m", "b", "r">>
    /\ \A i \in 5..Len(s) : s[i] \in Digits

\* r"[a-zA-Z0-9][a-zA-Z0-9.\-]*"
MatchName(s) ==
    /\ Len(s) >= 1
    /\ s[1] \in AlNum
    /\ \A i \in 2..Len(s) : s[i] \in AlNum \cup {".", "-"}

\* r"[0-9A-F]{8}-[0-9A-F]{4}-[0-9A-F]{4}-[0-9A-F]{4}-[0-9A-F]{12}"
MatchUuid(s) ==
    /\ Len(s) = 36
    /\ \A i \in 1..36 : IF i \in {9, 14, 19, 24} THEN s[i] = "-" ELSE s[i] \in HexUpper

\* r"([0-9A-F]{2}:){5}[0-9A-F]{2}"
MatchMac(s) ==
    /\ Len(s) = 17
    /\ \A i \in 1..17 : IF i \in {3, 6, 9, 12, 15} THEN s[i] = ":" ELSE s[i] \in HexUpper

\* (mutation) a failed check adds no message
Issue_dropped(cond, msg) == <<>>

\* one `if <cond>: issues.append(<msg>)`
Issue(cond, msg) == IF cond THEN <<msg>> ELSE <<>>

validate_config(config) ==
       Issue(config.vmid < 100 \/ config.vmid > 999999,
             "VMID must be between 100 and 999999.")
    \o Issue(config.name = <<>> \/ Len(config.name) < 3,
             "VM name must be at least 3 characters.")
    \o Issue(config.macos \notin DOMAIN SUPPORTED_MACOS,
             "macOS version must be one of: ventura, sonoma, sequoia, tahoe.")
    \o Issue(config.cores < 2,
             "At least 2 CPU cores are required.")
    \o Issue(config.memory_mb < 4096,
             "At least 4096 MB RAM is required.")
    \o Issue(config.disk_gb < 64,
             "At least 64 GB disk is required.")
    \o Issue(~MatchBridge(config.bridge),
             "Bridge must match vmbr<N> (e.g. vmbr0).")
    \o Issue(config.name # <<>> /\ ~MatchName(config.name),
             "VM name must start with alphanumeric and contain only [a-zA-Z0-9.-].")
    \o Issue(config.installer_path # <<>>
                /\ ~MatchPlus(config.installer_path, AlNum \cup {"/", ".", "_", "-"}),
             "Installer path contains invalid characters.")
    \o Issue(config.storage = <<>>,
             "Storage target is required.")
    \o Issue(config.smbios_serial # <<>>
                /\ ~MatchExactly(config.smbios_serial, UpperAZ \cup Digits, 12),
             "SMBIOS serial must be exactly 12 chars [A-Z0-9].")
    \o Issue(config.smbios_mlb # <<>>
                /\ ~MatchExactly(config.smbios_mlb, UpperAZ \cup Digits, 17),
             "SMBIOS MLB must be exactly 17 chars [A-Z0-9].")
    \o Issue(config.smbios_rom # <<>>
                /\ ~MatchExactly(config.smbios_rom, HexUpper, 12),
             "SMBIOS ROM must be exactly 12 hex chars [A-F0-9].")
    \o Issue(config.smbios_uuid # <<>> /\ ~MatchUuid(config.smbios_uuid),
             "SMBIOS UUID must be a valid uppercase UUID.")
    \o Issue(config.smbios_model # <<>>
                /\ ~(Len(config.smbios_model) \in 1..20
                        /\ AllIn(config.smbios_model, AlNum \cup {","})),
             "SMBIOS model must be alphanumeric (e.g., MacPro7,1).")
    \o Issue(config.cpu_model # <<>>
                /\ ~MatchPlus(config.cpu_model, AlNum \cup {"-"}),
             "CPU model must be alphanumeric/hyphens only (e.g., Skylake-Server-IBRS).")
    \o Issue(config.storage # <<>>
                /\ ~MatchPlus(config.storage, AlNum \cup {"_", "-"}),
             "Storage target must be alphanumeric, hyphens, underscores only.")
    \o Issue(config.static_mac # <<>> /\ ~MatchMac(config.static_mac),
             "Static MAC must be XX:XX:XX:XX:XX:XX format (uppercase hex).")
    \o Issue(config.vmgenid # <<>> /\ ~MatchUuid(config.vmgenid),
             "vmgenid must be a valid uppercase UUID.")

\* the configuration of scenario S1 and single-field departures from it
BaseConfig ==
    [vmid |-> 901,
     name |-> <<"m", "a", "c", "o", "s", "-", "t", "e", "s", "t">>,
     macos |-> "sequoia",
     cores |-> 8,
     memory_mb |-> 16384,
     disk_gb |-> 128,
     bridge |-> <<"v", "m", "b", "r", "0">>,
     storage |-> <<"l", "o", "c", "a", "l", "-", "l", "v", "m">>,
     installer_path |-> <<>>,
     smbios_serial |-> <<>>,
     smbios_uuid |-> <<>>,
     smbios_mlb |-> <<>>,
     smbios_rom |-> <<>>,
     smbios_model |-> <<>>,
     no_smbios |-> FALSE,
     apple_services |-> FALSE,
     vmgenid |-> <<>>,
     static_mac |-> <<>>,
     verbose_boot |-> FALSE,
     iso_dir |-> <<>>,
     cpu_model |-> <<>>]

ValidSamples ==
    { BaseConfig,
      [BaseConfig EXCEPT !.vmid = 100],
      [BaseConfig EXCEPT !.macos = "tahoe"],
      [BaseConfig EXCEPT !.no_smbios = TRUE],
      [BaseConfig EXCEPT !.apple_services = TRUE] }

InvalidSamples ==
    { [BaseConfig EXCEPT !.vmid = 99],
      [BaseConfig EXCEPT !.vmid = 1000000],
      [BaseConfig EXCEPT !.name = <<"a", "b">>],
      [BaseConfig EXCEPT !.name = <<"a", ";", "r", "m">>],
      [BaseConfig EXCEPT !.macos = "bigsur"],
      [BaseConfig EXCEPT !.cores = 1],
      [BaseConfig EXCEPT !.memory_mb = 4095],
      [BaseConfig EXCEPT !.disk_gb = 63],
      [BaseConfig EXCEPT !.bridge = <<"e", "t", "h", "0">>],
      [BaseConfig EXCEPT !.storage = <<>>],
      [BaseConfig EXCEPT !.storage = <<"a", " ", "b">>] }

ConfigSamples == ValidSamples \cup InvalidSamples

\* ------------------------------------------------------------------------
\* planner.py: build_plan and build_destroy_plan (each step by its title and
\* the VMID its argv addresses)
\* ------------------------------------------------------------------------

PlanStep(title, vmid) == [title |-> title, vmid |-> vmid]

\* _smbios_steps: one step unless no_smbios
smbios_steps(config) ==
    IF config.no_smbios THEN <<>>
    ELSE <<PlanStep("Set SMBIOS identity", config.vmid)>>

\* _apple_services_steps: two steps when apple_services
apple_services_steps(config) ==
    IF ~config.apple_services THEN <<>>
    ELSE <<PlanStep("Configure vmgenid for Apple services", config.vmid),
           PlanStep("Configure static MAC for Apple services", config.vmid)>>

\* build_plan: SUPPORTED_MACOS[config.macos] raises KeyError for an unknown
\* release; nothing else about the configuration is inspected
build_plan(config) ==
    IF config.macos \notin DOMAIN SUPPORTED_MACOS
    THEN [raised |-> TRUE, steps |-> <<>>]
    ELSE LET body ==
                <<PlanStep("Create VM shell", config.vmid),
                  PlanStep("Apply macOS hardware profile", config.vmid)>>
                \o smbios_steps(config)
                \o apple_services_steps(config)
                \o <<PlanStep("Attach EFI + TPM", config.vmid),
                     PlanStep("Create main disk", config.vmid),
                     PlanStep("Build OpenCore boot disk", config.vmid),
                     PlanStep("Import and attach OpenCore disk", config.vmid),
                     PlanStep("Stamp recovery with Apple icon flavour", config.vmid),
                     PlanStep("Import and attach macOS recovery", config.vmid),
                     PlanStep("Set boot order", config.vmid),
                     PlanStep("Start VM", config.vmid)>>
             preview ==
                IF SUPPORTED_MACOS[config.macos].channel = "preview"
                THEN <<PlanStep("Preview warning", config.vmid)>> ELSE <<>>
         IN [raised |-> FALSE, steps |-> preview \o body]

\* the second step's argv carries --purge when requested
build_destroy_plan(vmid, purge) ==
    <<PlanStep("Stop VM", vmid),
      [title |-> "Destroy VM", vmid |-> vmid, purge |-> purge]>>

\* ------------------------------------------------------------------------
\* assets.py: required_assets
\* ------------------------------------------------------------------------

required_assets(config, present) ==
    <<[name |-> "OpenCore image", kind |-> "opencore",
       ok |-> "opencore" \in present, downloadable |-> TRUE],
      [name |-> "Installer / recovery image", kind |-> "recovery",
       ok |-> "recovery" \in present, downloadable |-> (config.macos # "tahoe")]>>

NotOk(a) == ~a.ok
Missing(config, present) == SelectSeq(required_assets(config, present), NotOk)

\* ------------------------------------------------------------------------
\* rollback.py: create_snapshot
\* ------------------------------------------------------------------------

RollbackSnapshot(vmid) == [vmid |-> vmid]

\* what `qm config <vmid>` can do inside create_snapshot; the file is written
\* in the first two cases, and a missing qm binary raises out of the call
SnapshotOutcomes == {"captured", "no_config", "oserror"}

\* ------------------------------------------------------------------------
\* cli.py: run_cli for `plan` / `apply`, and _run_uninstall
\* ------------------------------------------------------------------------

\* what download_opencore / download_recovery can do: return the path, raise
\* DownloadError, or let another exception escape (urllib's URLError)
DownloadOutcomes == {"ok", "DownloadError", "URLError"}

\* _auto_download_missing: one download per missing downloadable asset, in
\* the order required_assets lists them; a DownloadError is printed and
\* swallowed, any other exception ends the function and run_cli.  Yields
\* the images present afterwards and the downloads made.
auto_download_missing(config, present, oc_out, rec_out) ==
    LET need(kind) ==
            \E i \in 1..2 : LET a == required_assets(config, present)[i]
                            IN a.kind = kind /\ ~a.ok /\ a.downloadable
        oc_raised == need("opencore") /\ oc_out = "URLError"
        rec_tried == need("recovery") /\ ~oc_raised
        oc_ev == IF need("opencore") THEN <<Event("download_opencore", 0, None)>> ELSE <<>>
        rec_ev == IF rec_tried THEN <<Event("download_recovery", 0, None)>> ELSE <<>>
        got == (IF need("opencore") /\ oc_out = "ok" THEN {"opencore"} ELSE {})
               \cup (IF rec_tried /\ rec_out = "ok" THEN {"recovery"} ELSE {})
    IN [present |-> present \cup got, events |-> oc_ev \o rec_ev,
        raised |-> oc_raised \/ (rec_tried /\ rec_out = "URLError")]

\* (mutation) issues are printed but do not end the command
Rejects_never(issues) == FALSE

\* line 161: `if issues`
Rejects(issues) == issues # <<>>

\* run_cli leaves without ever entering apply_plan
CliExit(code, events, present, snap) ==
    /\ exit_code' = code
    /\ log' = log \o events
    /\ assets' = present
    /\ snapshot' = snap
    /\ caller' = "exited"
    /\ UNCHANGED <<steps, execute, on_step, idx, results, xpc, ret, plan_config>>

\* run_cli, lines 159-207: validate, check assets (auto-downloading unless
\* --no-download), build the plan, then print it (`plan`) or snapshot and
\* enter apply_plan (`apply`)
CliPlanApply(cmd, config, ex, no_download, oc_out, rec_out, snap_out) ==
    LET issues == validate_config(config)
        ev_val == <<Event("validate_config", 0, None)>>
        missing0 == Missing(config, assets)
        dl == IF missing0 # <<>> /\ ~no_download
              THEN auto_download_missing(config, assets, oc_out, rec_out)
              ELSE [present |-> assets, events |-> <<>>, raised |-> FALSE]
        missing == Missing(config, dl.present)
        plan == build_plan(config)
        ev_plan == ev_val \o dl.events \o <<Event("build_plan", 0, None)>>
        ev_snap == ev_plan \o <<Event("create_snapshot", config.vmid, None)>>
    IN IF Rejects(issues)
       THEN CliExit(2, ev_val, assets, None)
       ELSE IF dl.raised
       THEN CliExit(1, ev_val \o dl.events, dl.present, None)
       ELSE IF missing # <<>>
       THEN CliExit(3, ev_val \o dl.events, dl.present, None)
       ELSE IF plan.raised
       THEN CliExit(1, ev_plan, dl.present, None)
       ELSE IF cmd = "plan"
       THEN CliExit(0, ev_plan, dl.present, None)
       ELSE IF snap_out = "oserror"
       THEN CliExit(1, ev_plan, dl.present, None)
       ELSE /\ apply_plan_enter(plan.steps, ex, FALSE, "cli")
            /\ log' = log \o ev_snap \o <<EnterEvent>>
            /\ assets' = dl.present
            /\ snapshot' = RollbackSnapshot(config.vmid)
            /\ UNCHANGED <<exit_code, plan_config>>

CliRun ==
    /\ caller = "none"
    /\ \E cmd \in {"plan", "apply"}, config \in ConfigSamples,
          ex \in BOOLEAN, no_download \in BOOLEAN,
          oc_out \in DownloadOutcomes, rec_out \in DownloadOutcomes,
          snap_out \in SnapshotOutcomes :
         /\ argv' = [cmd |-> cmd, config |-> config, execute |-> ex,
                      no_download |-> no_download]
         /\ CliPlanApply(cmd, config, ex, no_download, oc_out, rec_out, snap_out)
    /\ UNCHANGED <<host_ready, tui_vars>>

\* run_cli, lines 208-217, once apply_plan has come back: 0 or 4 (with the
\* rollback hints); an exception out of apply_plan ends the process with 1
CliFinish ==
    /\ caller = "cli"
    /\ xpc \in {"returned", "raised"}
    /\ exit_code' = IF xpc = "raised" THEN 1 ELSE IF ret.ok THEN 0 ELSE 4
    /\ caller' = "exited"
    /\ UNCHANGED <<steps, execute, on_step, idx, results, xpc, ret, plan_config,
                   host_ready, assets, argv, snapshot, log, tui_vars>>

\* _run_download, lines 254-278: the OpenCore image unless --recovery-only,
\* the recovery image unless --opencore-only; a DownloadError is printed and
\* turns the exit code into 5, any other exception ends the process with 1
CliDownload ==
    /\ caller = "none"
    /\ \E recovery_only \in BOOLEAN, opencore_only \in BOOLEAN,
          oc_out \in DownloadOutcomes, rec_out \in DownloadOutcomes :
         LET oc_raised == ~recovery_only /\ oc_out = "URLError"
             rec_tried == ~opencore_only /\ ~oc_raised
             oc_ev == IF ~recovery_only
                      THEN <<Event("download_opencore", 0, [outcome |-> oc_out])>> ELSE <<>>
             rec_ev == IF rec_tried
                       THEN <<Event("download_recovery", 0, [outcome |-> rec_out])>> ELSE <<>>
             got == (IF ~recovery_only /\ oc_out = "ok" THEN {"opencore"} ELSE {})
                    \cup (IF rec_tried /\ rec_out = "ok" THEN {"recovery"} ELSE {})
             ok == /\ (~recovery_only => oc_out = "ok")
                   /\ (rec_tried => rec_out = "ok")
         IN /\ argv' = [cmd |-> "download", recovery_only |-> recovery_only,
                         opencore_only |-> opencore_only]
            /\ IF oc_raised \/ (rec_tried /\ rec_out = "URLError")
               THEN CliExit(1, oc_ev \o rec_ev, assets \cup got, None)
               ELSE CliExit(IF ok THEN 0 ELSE 5, oc_ev \o rec_ev, assets \cup got, None)
    /\ UNCHANGED <<host_ready, tui_vars>>

VmidSamples == {99, 100, 901, 999999, 1000000}

\* planner.fetch_vm_info: None unless `qm status <vmid>` comes back ok; an
\* exception from the adapter propagates
fetch_vm_info(status_out) ==
    LET status_result == ProxmoxAdapter_run(status_out)
    IN [raised |-> status_result.raised,
        found |-> ~status_result.raised /\ status_result.ok]

\* (mutation) the lookup result is not inspected
NotFound_never(info) == FALSE

\* line 228: `if info is None`
NotFound(info) == ~info.found

\* _run_uninstall, lines 220-245: range check; with --execute look the VM
\* up (fetch_vm_info) and snapshot it; build the destroy plan; without
\* --execute print it, else enter apply_plan(execute=True)
CliUninstall ==
    /\ caller = "none"
    /\ \E vmid \in VmidSamples, purge \in BOOLEAN, ex \in BOOLEAN,
          status_out \in SubprocessOutcomes, snap_out \in SnapshotOutcomes :
         /\ argv' = [cmd |-> "uninstall", vmid |-> vmid, purge |-> purge,
                      execute |-> ex]
         /\ LET plan == build_destroy_plan(vmid, purge)
                info == fetch_vm_info(status_out)
                ev_info == <<Event("fetch_vm_info", vmid, [found |-> info.found])>>
                ev_snap == ev_info \o <<Event("create_snapshot", vmid, None)>>
            IN IF vmid < 100 \/ vmid > 999999
               THEN CliExit(2, <<>>, assets, None)
               ELSE IF ~ex
               THEN CliExit(0, <<Event("build_destroy_plan", vmid, None)>>, assets, None)
               ELSE IF info.raised
               THEN CliExit(1, ev_info, assets, None)
               ELSE IF NotFound(info)
               THEN CliExit(2, ev_info, assets, None)
               ELSE IF snap_out = "oserror"
               THEN CliExit(1, ev_info, assets, None)
               ELSE /\ apply_plan_enter(plan, TRUE, FALSE, "uninstall")
                    /\ log' = log \o ev_snap
                                   \o <<Event("build_destroy_plan", vmid, None), EnterEvent>>
                    /\ snapshot' = RollbackSnapshot(vmid)
                    /\ UNCHANGED <<assets, exit_code, plan_config>>
    /\ UNCHANGED <<host_ready, tui_vars>>

\* _run_uninstall, lines 245-251: 0 or 6
UninstallFinish ==
    /\ caller = "uninstall"
    /\ xpc \in {"returned", "raised"}
    /\ exit_code' = IF xpc = "raised" THEN 1 ELSE IF ret.ok THEN 0 ELSE 6
    /\ caller' = "exited"
    /\ UNCHANGED <<steps, execute, on_step, idx, results, xpc, ret, plan_config,
                   host_ready, assets, argv, snapshot, log, tui_vars>>

\* ------------------------------------------------------------------------
\* preflight.py: run_preflight, as the front-ends consume it
\* ------------------------------------------------------------------------

\* all(c.ok for c in run_preflight()) on this host
run_preflight_all_ok(ready) == ready

\* ------------------------------------------------------------------------
\* app.py: the TUI wizard
\* ------------------------------------------------------------------------

\* forms the user can have entered
TuiFormSamples ==
    { BaseConfig,
      [BaseConfig EXCEPT !.vmid = 100],
      [BaseConfig EXCEPT !.vmid = 99],
      [BaseConfig EXCEPT !.name = <<"a", ";", "r", "m">>],
      [BaseConfig EXCEPT !.macos = "tahoe"] }

\* _validate_form_inputs: the form-level checks (no installer image is
\* auto-detected for an empty Tahoe installer path)
validate_form_inputs(f) ==
    /\ ~(f.vmid < 100 \/ f.vmid > 999999)
    /\ ~(Len(f.name) < 3)
    /\ ~(f.memory_mb < 4096)
    /\ ~(f.disk_gb < 64)
    /\ Len(f.bridge) >= 4 /\ SubSeq(f.bridge, 1, 4) = <<"v", "m", "b", "r">>
    /\ f.storage # <<>>
    /\ ~(f.macos = "tahoe" /\ f.installer_path = <<>>)

\* NextApp.__init__ and on_mount: the wizard opens with the host defaults
TuiMount ==
    /\ caller = "none"
    /\ caller' = "tui"
    /\ form' = BaseConfig
    /\ UNCHANGED <<steps, execute, on_step, idx, results, xpc, ret, plan_config,
                   host_vars, cli_vars, last_config, last_steps, apply_running,
                   preflight_has_run, preflight_ok, wpc, w_execute, applies, log>>

\* the user edits the form
TuiEditForm ==
    /\ caller = "tui"
    /\ \E f \in TuiFormSamples : form' = f
    /\ UNCHANGED <<exec_vars, host_vars, cli_vars, last_config, last_steps,
                   apply_running, preflight_has_run, preflight_ok, wpc, w_execute,
                   applies, log>>

\* _run_preflight (lines 599-602)
TuiRunPreflight ==
    /\ caller = "tui"
    /\ preflight_has_run' = TRUE
    /\ preflight_ok' = run_preflight_all_ok(host_ready)
    /\ UNCHANGED <<exec_vars, host_vars, cli_vars, form, last_config, last_steps,
                   apply_running, wpc, w_execute, applies, log>>

\* action_generate_plan (lines 337-354): what it leaves in last_config and
\* last_steps, given what they were
generate_plan(f, lc, ls) ==
    IF ~validate_form_inputs(f) \/ validate_config(f) # <<>>
    THEN [last_config |-> lc, last_steps |-> ls]
    ELSE [last_config |-> f, last_steps |-> build_plan(f).steps]

TuiGeneratePlan ==
    /\ caller = "tui"
    /\ LET g == generate_plan(form, last_config, last_steps)
       IN /\ last_config' = g.last_config
          /\ last_steps' = g.last_steps
    /\ UNCHANGED <<exec_vars, host_vars, cli_vars, form, apply_running,
                   preflight_has_run, preflight_ok, wpc, w_execute, applies, log>>

\* (mutation) the busy flag is not consulted
AlreadyRunning_never(running) == FALSE

\* line 378: `if self.apply_running`
AlreadyRunning(running) == running

\* _apply (lines 377-437), up to and including the start of the worker thread
TuiApply ==
    /\ caller = "tui"
    /\ applies < MaxApplies \/ apply_running
    /\ \E ex \in BOOLEAN :
         LET has_run == TRUE
             pf_ok == IF preflight_has_run THEN preflight_ok
                      ELSE run_preflight_all_ok(host_ready)
             g == IF last_config = None \/ last_steps = <<>>
                  THEN generate_plan(form, last_config, last_steps)
                  ELSE [last_config |-> last_config, last_steps |-> last_steps]
         IN IF AlreadyRunning(apply_running)
            THEN UNCHANGED <<tui_vars, log>>
            ELSE /\ preflight_has_run' = has_run
                 /\ preflight_ok' = pf_ok
                 /\ form' = form
                 /\ IF \/ (ex /\ ~pf_ok)
                       \/ ~validate_form_inputs(form)
                       \/ (ex /\ Missing(form, assets) # <<>>)
                    THEN UNCHANGED <<last_config, last_steps, apply_running,
                                     wpc, w_execute, applies, log>>
                    ELSE /\ last_config' = g.last_config
                         /\ last_steps' = g.last_steps
                         /\ IF g.last_config = None \/ g.last_steps = <<>>
                            THEN UNCHANGED <<apply_running, wpc, w_execute, applies, log>>
                            ELSE /\ apply_running' = TRUE
                                 /\ wpc' = "snapshot"
                                 /\ w_execute' = ex
                                 /\ applies' = applies + 1
                                 /\ log' = log \o <<Event("thread_start", applies + 1,
                                                        [config |-> form])>>
    /\ UNCHANGED <<exec_vars, host_vars, cli_vars>>

\* (mutation) the worker goes straight to apply_plan
TakesSnapshot_never(ex, lc) == FALSE

\* line 432: `if execute and self.last_config`
TakesSnapshot(ex, lc) == ex /\ lc # None

\* worker(), lines 431-433: a live apply snapshots self.last_config.vmid first;
\* an exception out of create_snapshot ends the thread
WorkerSnapshot ==
    /\ wpc = "snapshot"
    /\ IF TakesSnapshot(w_execute, last_config)
       THEN \E snap_out \in SnapshotOutcomes :
              IF snap_out = "oserror"
              THEN /\ wpc' = "dead"
                   /\ UNCHANGED <<snapshot, log>>
              ELSE /\ wpc' = "apply"
                   /\ snapshot' = RollbackSnapshot(last_config.vmid)
                   /\ log' = log \o <<Event("create_snapshot", last_config.vmid, None)>>
       ELSE /\ wpc' = "apply"
            /\ snapshot' = None
            /\ log' = log
    /\ UNCHANGED <<exec_vars, host_vars, argv, exit_code, form, last_config,
                   last_steps, apply_running, preflight_has_run, preflight_ok,
                   w_execute, applies>>

\* worker(), line 434: apply_plan(self.last_steps, execute, on_step=callback)
WorkerApply ==
    /\ wpc = "apply"
    /\ xpc \in {"idle", "returned", "raised"}
    /\ apply_plan_enter(last_steps, w_execute, TRUE, "tui")
    /\ wpc' = "in_apply"
    /\ log' = log \o <<EnterEvent>>
    /\ UNCHANGED <<plan_config, host_vars, cli_vars, form, last_config, last_steps,
                   apply_running, preflight_has_run, preflight_ok, w_execute,
                   applies>>

\* worker(), line 435, and _finish_apply (line 1032) on the UI thread; an
\* exception out of apply_plan ends the thread before line 435
WorkerFinish ==
    /\ wpc = "in_apply"
    /\ xpc \in {"returned", "raised"}
    /\ IF xpc = "raised"
       THEN /\ wpc' = "dead"
            /\ UNCHANGED <<apply_running, log>>
       ELSE /\ wpc' = "none"
            /\ apply_running' = FALSE
            /\ log' = log \o <<Event("finish_apply", applies, None)>>
    /\ UNCHANGED <<exec_vars, host_vars, cli_vars, form, last_config, last_steps,
                   preflight_has_run, preflight_ok, w_execute, applies>>

\* ------------------------------------------------------------------------
\* downloader.py: the atomic file-download primitive
\* ------------------------------------------------------------------------

_MAX_RETRIES == 3
_BACKOFF_SECONDS == <<1, 2, 4>>

\* the files of the destination directory for macos = "sequoia"
OpencoreDest == "opencore-sequoia.iso"
RecoveryDest == "sequoia-recovery.img"
DmgPath == "sequoia-BaseSystem.dmg"
ChunklistPath == "sequoia-BaseSystem.chunklist"

\* dest.parent / (dest.name + ".part")
Part(dest) == dest \o ".part"

Paths == {OpencoreDest, Part(OpencoreDest), RecoveryDest,
          DmgPath, Part(DmgPath), ChunklistPath, Part(ChunklistPath)}

\* files an earlier run may have left behind
LeftOvers == {OpencoreDest, Part(OpencoreDest), RecoveryDest, Part(DmgPath)}

Absent == [exists |-> FALSE, data |-> <<>>]
File(data) == [exists |-> TRUE, data |-> data]

\* the body one attempt receives: every chunk carries the attempt's ordinal
Payload(n) == [i \in 1..NumChunks |-> n]

DownloadError(msg) == [type |-> "DownloadError", msg |-> msg]
OtherError(type) == [type |-> type, msg |-> ""]

\* (mutation) the partial file is left behind after a failed attempt
unlink_part_skipped(f, p) == f

\* `if part_path.exists(): part_path.unlink()`
unlink_part(f, p) == IF f[p].exists THEN [f EXCEPT ![p] = Absent] ELSE f

\* `if attempt < _MAX_RETRIES - 1: time.sleep(...)`
Sleeps(a) == a < _MAX_RETRIES - 1

\* (mutation) the loop gives up one attempt early
MoreAttempts_one_less(a) == a + 1 < _MAX_RETRIES - 1

\* `for attempt in range(_MAX_RETRIES)`: there is a next iteration
MoreAttempts(a) == a + 1 < _MAX_RETRIES

\* entry of _download_file / _download_file_with_token, up to the loop
download_file_enter(dest, token) ==
    /\ dl_dest' = dest
    /\ with_token' = token
    /\ attempt' = 0
    /\ dpc' = "try"
    /\ clean_start' = (~fs[dest].exists /\ ~fs[Part(dest)].exists)
    /\ attempt_results' = <<>>
    /\ attempts_made' = 0
    /\ sleeps' = <<>>
    /\ total' = 0

\* the call's frame is gone once its caller has seen it return or raise
download_file_exit ==
    /\ dpc' = "idle"
    /\ attempt_results' = <<>>
    /\ attempts_made' = 0
    /\ UNCHANGED <<dl_dest, with_token, attempt, clean_start, sleeps, total>>

\* the `except Exception` branch of one attempt, and what follows it: the
\* next iteration, or the raise after the loop
AttemptFailed(cause) ==
    /\ fs' = unlink_part(fs, Part(dl_dest))
    /\ attempt_results' = Append(attempt_results, cause)
    /\ sleeps' = IF Sleeps(attempt)
                 THEN Append(sleeps, _BACKOFF_SECONDS[attempt + 1])
                 ELSE sleeps
    /\ IF MoreAttempts(attempt)
       THEN /\ attempt' = attempt + 1
            /\ dpc' = "try"
            /\ UNCHANGED dl_error
       ELSE /\ dpc' = "raised"
            /\ dl_error' = DownloadError("Download failed after 3 attempts")
            /\ UNCHANGED attempt

\* `int(resp.headers.get("Content-Length", 0))`: the length of the body the
\* server announces, or 0 when the response carries no such header
ContentLengths == {0, NumChunks}

\* _do_download up to `open(dest, "wb")`: urlopen may fail, and so may the
\* creation of the partial file; "wb" truncates a partial file left behind
DoDownloadOpen ==
    /\ dpc = "try"
    /\ attempts_made' = attempts_made + 1
    /\ file_starts' = file_starts + 1
    /\ \E outcome \in {"ok", "urlopen_error", "open_error"} :
         IF outcome = "ok"
         THEN /\ fs' = [fs EXCEPT ![Part(dl_dest)] = File(<<>>)]
              /\ dpc' = "stream"
              /\ \E cl \in ContentLengths : total' = cl
              /\ UNCHANGED <<attempt, attempt_results, sleeps, dl_error>>
         ELSE AttemptFailed(outcome) /\ UNCHANGED total
    /\ UNCHANGED <<flow, fpc, dl_dest, with_token, clean_start, proto_vars, front_vars, pure_vars>>

\* `chunk = resp.read(_CHUNK_SIZE); if not chunk: break`: read returns no
\* bytes at the end of the body, and also when the peer closes the
\* connection before the body is complete
StreamEnds(downloaded) == downloaded <= NumChunks

\* one turn of the chunk loop of _do_download: a chunk is written, the
\* stream ends, or the read (or the write, or on_progress) raises;
\* `downloaded` is the length of the partial file
DoDownloadRead ==
    /\ dpc = "stream"
    /\ \/ /\ Len(fs[Part(dl_dest)].data) < NumChunks
          /\ fs' = [fs EXCEPT ![Part(dl_dest)].data = Append(@, attempt + 1)]
          /\ UNCHANGED <<attempt, dpc, attempt_results, sleeps, dl_error>>
       \/ /\ StreamEnds(Len(fs[Part(dl_dest)].data))
          /\ dpc' = "rename"
          /\ UNCHANGED <<fs, attempt, attempt_results, sleeps, dl_error>>
       \/ AttemptFailed("read_error")
    /\ UNCHANGED <<flow, fpc, dl_dest, with_token, clean_start, attempts_made,
                   total, file_starts, proto_vars, front_vars, pure_vars>>

\* `part_path.rename(dest); return`, or the rename raises
DownloadRename ==
    /\ dpc = "rename"
    /\ \/ /\ fs' = [fs EXCEPT ![dl_dest] = fs[Part(dl_dest)],
                              ![Part(dl_dest)] = Absent]
          /\ attempt_results' = Append(attempt_results, "ok")
          /\ dpc' = "returned"
          /\ UNCHANGED <<attempt, sleeps, dl_error>>
       \/ AttemptFailed("rename_error")
    /\ UNCHANGED <<flow, fpc, dl_dest, with_token, clean_start, attempts_made,
                   total, file_starts, proto_vars, front_vars, pure_vars>>

\* a call of the primitive on its own
DownloadFileCall ==
    /\ fpc = "idle"
    /\ flow' = "file"
    /\ fpc' = "file"
    /\ \E dest \in {OpencoreDest, DmgPath}, token \in BOOLEAN :
         download_file_enter(dest, token)
    /\ UNCHANGED <<fs, dl_error, proto_vars, file_starts, front_vars, pure_vars>>

\* the caller of the primitive goes on: download_opencore line 74,
\* download_recovery lines 104 and 106, or the exception propagates
AfterFile ==
    /\ fpc = "file"
    /\ dpc \in {"returned", "raised"}
    /\ IF dpc = "raised"
       THEN fpc' = "raised" /\ download_file_exit
       ELSE IF flow = "recovery" /\ dl_dest = DmgPath
       THEN fpc' = "file" /\ download_file_enter(ChunklistPath, TRUE)
       ELSE IF flow = "recovery"
       THEN fpc' = "build" /\ download_file_exit
       ELSE fpc' = "returned" /\ download_file_exit
    /\ UNCHANGED <<fs, flow, dl_error, file_starts, proto_vars, front_vars, pure_vars>>

\* ------------------------------------------------------------------------
\* downloader.py: download_opencore and download_recovery
\* ------------------------------------------------------------------------

Endpoints == {"release_tag", "release_latest", "session", "image_info"}

\* asset_name = f"opencore-{macos}.iso"
AssetName == "opencore-sequoia.iso"

Asset(name, url) == [name |-> name, browser_download_url |-> url]

\* the asset lists a release may carry
ReleaseSamples ==
    { {},
      {Asset(AssetName, "https://github.com/a.iso")},
      {Asset("opencore-sonoma.iso", "https://github.com/b.iso")},
      {Asset("opencore-sonoma.iso", "https://github.com/b.iso"),
       Asset(AssetName, "https://github.com/a.iso")},
      {Asset(AssetName, "")},
      {Asset("opencore-osx-proxmox-vm.iso", "https://github.com/u.iso")} }

\* (mutation) any release is taken to carry the asset
find_release_asset_any(rel, asset_name) ==
    [raised |-> FALSE, url |-> "https://github.com/a.iso"]

\* _find_release_asset: the named asset's non-empty URL, else DownloadError
find_release_asset(rel, asset_name) ==
    IF \E a \in rel : a.name = asset_name /\ a.browser_download_url # ""
    THEN [raised |-> FALSE,
          url |-> (CHOOSE a \in rel : a.name = asset_name
                                      /\ a.browser_download_url # "").browser_download_url]
    ELSE [raised |-> TRUE, url |-> ""]

\* what urlopen + json_loads can do in _http_get_json: a document, an
\* HTTPError, or any other exception (URLError, a timeout, a ValueError)
HttpOutcomes == {"ok", "http_error", "other_error"}

\* download_opencore, lines 63-68
DownloadOpencore ==
    /\ fpc = "idle"
    /\ flow' = "opencore"
    /\ fpc' = IF fs[OpencoreDest].exists THEN "returned" ELSE "fetch_tag"
    /\ UNCHANGED <<fs, file_vars, dl_error, proto_vars, file_starts, front_vars, pure_vars>>

\* download_opencore lines 71-73, once _fetch_github_release has returned
GotRelease(endpoint, rel) ==
    /\ release' = [from |-> endpoint, assets |-> rel]
    /\ IF find_release_asset(rel, AssetName).raised
       THEN /\ fpc' = "raised"
            /\ dl_error' = DownloadError("Asset not found in release")
            /\ UNCHANGED file_vars
       ELSE /\ fpc' = "file"
            /\ download_file_enter(OpencoreDest, FALSE)
            /\ UNCHANGED dl_error

\* _fetch_github_release, the request for the version's tag: only an
\* HTTPError (or a DownloadError) leads on to the request for the latest
FetchReleaseTag ==
    /\ fpc = "fetch_tag"
    /\ reqs' = [reqs EXCEPT !["release_tag"] = @ + 1]
    /\ \E outcome \in HttpOutcomes, rel \in ReleaseSamples :
         CASE outcome = "ok" -> GotRelease("release_tag", rel)
           [] outcome = "http_error" ->
                /\ fpc' = "fetch_latest"
                /\ UNCHANGED <<release, dl_error, file_vars>>
           [] outcome = "other_error" ->
                /\ fpc' = "raised"
                /\ dl_error' = OtherError("URLError")
                /\ UNCHANGED <<release, file_vars>>
    /\ UNCHANGED <<fs, flow, session, image_info, file_starts, front_vars, pure_vars>>

\* _fetch_github_release, the request for the latest release
FetchReleaseLatest ==
    /\ fpc = "fetch_latest"
    /\ reqs' = [reqs EXCEPT !["release_latest"] = @ + 1]
    /\ \E outcome \in HttpOutcomes, rel \in ReleaseSamples :
         CASE outcome = "ok" -> GotRelease("release_latest", rel)
           [] outcome = "http_error" ->
                /\ fpc' = "raised"
                /\ dl_error' = DownloadError("Could not fetch GitHub release")
                /\ UNCHANGED <<release, file_vars>>
           [] outcome = "other_error" ->
                /\ fpc' = "raised"
                /\ dl_error' = OtherError("URLError")
                /\ UNCHANGED <<release, file_vars>>
    /\ UNCHANGED <<fs, flow, session, image_info, file_starts, front_vars, pure_vars>>

\* download_recovery for a macOS with a board id, lines 85-90
DownloadRecovery ==
    /\ fpc = "idle"
    /\ flow' = "recovery"
    /\ fpc' = IF fs[RecoveryDest].exists THEN "returned" ELSE "session"
    /\ UNCHANGED <<fs, file_vars, dl_error, proto_vars, file_starts, front_vars, pure_vars>>

\* _get_recovery_session: a response with a session cookie, a response
\* without one, or a failed request
GetRecoverySession ==
    /\ fpc = "session"
    /\ reqs' = [reqs EXCEPT !["session"] = @ + 1]
    /\ \E outcome \in {"cookie", "no_cookie", "error"} :
         /\ session' = outcome
         /\ CASE outcome = "cookie" ->
                   fpc' = "image_info" /\ UNCHANGED dl_error
              [] outcome = "no_cookie" ->
                   /\ fpc' = "raised"
                   /\ dl_error' = DownloadError("No session cookie in Apple recovery response.")
              [] outcome = "error" ->
                   /\ fpc' = "raised"
                   /\ dl_error' = DownloadError("Failed to get recovery session")
    /\ UNCHANGED <<fs, flow, file_vars, release, image_info, file_starts, front_vars, pure_vars>>

RequiredKeys == <<"AU", "AT", "CU", "CT">>

\* lines 356-360: the first required key the response lacks (0 if none)
MissingKey(keys) ==
    IF \E i \in 1..Len(RequiredKeys) : RequiredKeys[i] \notin keys
    THEN CHOOSE i \in 1..Len(RequiredKeys) :
            /\ RequiredKeys[i] \notin keys
            /\ \A k \in 1..(i - 1) : RequiredKeys[k] \in keys
    ELSE 0

\* _get_recovery_image_info, then download_recovery lines 95-103
GetRecoveryImageInfo ==
    /\ fpc = "image_info"
    /\ reqs' = [reqs EXCEPT !["image_info"] = @ + 1]
    /\ \E outcome \in {"ok", "error"}, keys \in SUBSET {"AU", "AT", "CU", "CT"} :
         IF outcome = "error"
         THEN /\ fpc' = "raised"
              /\ dl_error' = DownloadError("Failed to get recovery image info")
              /\ UNCHANGED <<image_info, file_vars>>
         ELSE /\ image_info' = [keys |-> keys]
              /\ IF MissingKey(keys) # 0
                 THEN /\ fpc' = "raised"
                      /\ dl_error' = DownloadError("Missing key in Apple recovery response")
                      /\ UNCHANGED file_vars
                 ELSE /\ fpc' = "file"
                      /\ download_file_enter(DmgPath, TRUE)
                      /\ UNCHANGED dl_error
    /\ UNCHANGED <<fs, flow, release, session, file_starts, front_vars, pure_vars>>

\* _build_recovery_image: subprocess.run(["dmg2img", dmg_path, dest]) is
\* entered; the program is missing, or it starts and creates dest, the file
\* it was told to write
BuildRecoveryImage ==
    /\ fpc = "build"
    /\ \E outcome \in {"started", "file_not_found"} :
         CASE outcome = "started" ->
                /\ fs' = [fs EXCEPT ![RecoveryDest] = File(<<>>)]
                /\ fpc' = "dmg2img"
                /\ UNCHANGED dl_error
           [] outcome = "file_not_found" ->
                /\ fpc' = "raised"
                /\ dl_error' = DownloadError("dmg2img is required but not installed.")
                /\ UNCHANGED fs
    /\ UNCHANGED <<flow, file_vars, proto_vars, file_starts, front_vars, pure_vars>>

\* dmg2img runs, writing dest as it converts: it writes the next part of
\* the image; it exits with status 0 once all is written, and
\* download_recovery goes on to lines 108-111; or it exits with another
\* status, and the CalledProcessError handler unlinks dest and raises
Dmg2img ==
    /\ fpc = "dmg2img"
    /\ \/ /\ Len(fs[RecoveryDest].data) < Len(fs[DmgPath].data)
          /\ fs' = [fs EXCEPT ![RecoveryDest].data =
                        Append(@, fs[DmgPath].data[Len(@) + 1])]
          /\ UNCHANGED <<fpc, dl_error>>
       \/ /\ Len(fs[RecoveryDest].data) = Len(fs[DmgPath].data)
          /\ fs' = [fs EXCEPT ![DmgPath] = Absent, ![ChunklistPath] = Absent]
          /\ fpc' = "returned"
          /\ UNCHANGED dl_error
       \/ /\ fs' = [fs EXCEPT ![RecoveryDest] = Absent]
          /\ fpc' = "raised"
          /\ dl_error' = DownloadError("Failed to convert recovery DMG")
    /\ UNCHANGED <<flow, file_vars, proto_vars, file_starts, front_vars, pure_vars>>

\* no download function has been called yet
DownloaderIdle ==
    /\ flow = "none"
    /\ fpc = "idle"
    /\ dl_dest = OpencoreDest
    /\ with_token = FALSE
    /\ attempt = 0
    /\ dpc = "idle"
    /\ clean_start = FALSE
    /\ attempt_results = <<>>
    /\ attempts_made = 0
    /\ sleeps = <<>>
    /\ total = 0
    /\ dl_error = None
    /\ reqs = [e \in Endpoints |-> 0]
    /\ release = None
    /\ session = "none"
    /\ image_info = None
    /\ file_starts = 0


ArbitraryPlan(n) == [i \in 1..n |-> [title |-> "step", vmid |-> 0]]

DirectApply ==
    /\ caller = "none"
    /\ \E n \in 0..MaxSteps, ex \in BOOLEAN, cb \in BOOLEAN :
         apply_plan_enter(ArbitraryPlan(n), ex, cb, "direct")
    /\ log' = log \o <<EnterEvent>>
    /\ UNCHANGED <<plan_config, host_vars, cli_vars, tui_vars>>

\* a library caller that builds a plan from a configuration and applies it
\* without calling validate_config first; a KeyError out of build_plan ends it
DirectBuildApply ==
    /\ caller = "none"
    /\ \E config \in ConfigSamples, ex \in BOOLEAN, cb \in BOOLEAN :
         LET plan == build_plan(config)
         IN /\ plan_config' = config
            /\ IF plan.raised
               THEN /\ caller' = "exited"
                    /\ UNCHANGED <<steps, execute, on_step, idx, results, xpc, ret, log>>
               ELSE /\ apply_plan_enter(plan.steps, ex, cb, "direct")
                    /\ log' = log \o <<EnterEvent>>
    /\ UNCHANGED <<host_vars, cli_vars, tui_vars>>

Init ==
    /\ steps = <<>>
    /\ execute = FALSE
    /\ on_step = FALSE
    /\ idx = 0
    /\ results = <<>>
    /\ xpc = "idle"
    /\ ret = None
    /\ caller = "none"
    /\ plan_config = None
    /\ host_ready \in BOOLEAN
    /\ assets \in SUBSET {"opencore", "recovery"}
    /\ argv = None
    /\ exit_code = NoExit
    /\ snapshot = None
    /\ form = BaseConfig
    /\ last_config = None
    /\ last_steps = <<>>
    /\ apply_running = FALSE
    /\ preflight_has_run = FALSE
    /\ preflight_ok = FALSE
    /\ wpc = "none"
    /\ w_execute = FALSE
    /\ applies = 0
    /\ log = <<>>
    /\ DownloaderIdle
    /\ fs = [p \in Paths |-> Absent]
    /\ PureOff

Next ==
    \/ DirectApply /\ UNCHANGED <<dl_vars, pure_vars>>
    \/ DirectBuildApply /\ UNCHANGED <<dl_vars, pure_vars>>
    \/ CliRun /\ UNCHANGED <<dl_vars, pure_vars>>
    \/ CliFinish /\ UNCHANGED <<dl_vars, pure_vars>>
    \/ CliDownload /\ UNCHANGED <<dl_vars, pure_vars>>
    \/ CliUninstall /\ UNCHANGED <<dl_vars, pure_vars>>
    \/ UninstallFinish /\ UNCHANGED <<dl_vars, pure_vars>>
    \/ TuiMount /\ UNCHANGED <<dl_vars, pure_vars>>
    \/ TuiEditForm /\ UNCHANGED <<dl_vars, pure_vars>>
    \/ TuiRunPreflight /\ UNCHANGED <<dl_vars, pure_vars>>
    \/ TuiGeneratePlan /\ UNCHANGED <<dl_vars, pure_vars>>
    \/ TuiApply /\ UNCHANGED <<dl_vars, pure_vars>>
    \/ WorkerSnapshot /\ UNCHANGED <<dl_vars, pure_vars>>
    \/ WorkerApply /\ UNCHANGED <<dl_vars, pure_vars>>
    \/ WorkerFinish /\ UNCHANGED <<dl_vars, pure_vars>>
    \/ LoopStep /\ UNCHANGED <<dl_vars, pure_vars>>
    \/ RunStep /\ UNCHANGED <<dl_vars, pure_vars>>
    \/ LoopExit /\ UNCHANGED <<dl_vars, pure_vars>>

Spec == Init /\ [][Next]_vars

\* the downloader on its own: one call of download_opencore, of
\* download_recovery or of the file-download primitive, in a destination
\* directory that may hold files of an earlier run
InitDl ==
    /\ steps = <<>>
    /\ execute = FALSE
    /\ on_step = FALSE
    /\ idx = 0
    /\ results = <<>>
    /\ xpc = "idle"
    /\ ret = None
    /\ caller = "none"
    /\ plan_config = None
    /\ host_ready = TRUE
    /\ assets = {}
    /\ argv = None
    /\ exit_code = NoExit
    /\ snapshot = None
    /\ form = BaseConfig
    /\ last_config = None
    /\ last_steps = <<>>
    /\ apply_running = FALSE
    /\ preflight_has_run = FALSE
    /\ preflight_ok = FALSE
    /\ wpc = "none"
    /\ w_execute = FALSE
    /\ applies = 0
    /\ log = <<>>
    /\ DownloaderIdle
    /\ \E pre \in SUBSET LeftOvers :
         fs = [p \in Paths |-> IF p \in pre THEN File(<<0>>) ELSE Absent]
    /\ PureOff

NextDl ==
    \/ DownloadFileCall
    \/ DoDownloadOpen
    \/ DoDownloadRead
    \/ DownloadRename
    \/ AfterFile
    \/ DownloadOpencore
    \/ FetchReleaseTag
    \/ FetchReleaseLatest
    \/ DownloadRecovery
    \/ GetRecoverySession
    \/ GetRecoveryImageInfo
    \/ BuildRecoveryImage
    \/ Dmg2img

SpecDl == InitDl /\ [][NextDl]_vars

\* ------------------------------------------------------------------------
\* Properties
\* ------------------------------------------------------------------------

\* the part of the history that belongs to the current apply_plan activation
LastEnter ==
    IF \E i \in 1..Len(log) : log[i] = EnterEvent
    THEN CHOOSE i \in 1..Len(log) :
            log[i] = EnterEvent /\ \A k \in (i + 1)..Len(log) : log[k] # EnterEvent
    ELSE 0
Act == SubSeq(log, LastEnter + 1, Len(log))

IsRun(e) == e.ev = "run"
IsOnStep(e) == e.ev = "on_step"
IsRunOrOnStep(e) == e.ev \in {"run", "on_step"}
ActRuns == SelectSeq(Act, IsRun)
ActCallbacks == SelectSeq(Act, IsOnStep)
ActSteps == SelectSeq(Act, IsRunOrOnStep)

Failing(res) == {k \in 1..Len(res) : ~res[k].ok}
TitlesMatch(res) == \A i \in 1..Len(res) : res[i].title = steps[i].title

\* C1: a live apply invokes the adapter for the steps in plan order, once
\* each, and only up to the first failure: when apply_plan returns after a
\* step whose command result is not ok, that step is the k-th, ok is false,
\* there are exactly k results in plan order (the last one the failing one)
\* and the adapter was invoked k times; when it returns without a failing
\* result, ok is true and there are exactly n results.
C1_StopsAtFirstFailure ==
    (execute /\ xpc # "idle") =>
        /\ \A j \in 1..Len(ActRuns) : ActRuns[j].idx = j
        /\ Len(ActRuns) <= Len(steps)
        /\ Len(ActRuns) = Len(results) + (IF xpc \in {"run", "raised"} THEN 1 ELSE 0)
        /\ TitlesMatch(results)
        /\ xpc = "returned" =>
             /\ ret.results = results
             /\ IF Failing(results) # {}
                THEN /\ ret.ok = FALSE
                     /\ Failing(results) = {Len(results)}
                     /\ Len(ActRuns) = Len(results)
                ELSE /\ ret.ok = TRUE
                     /\ Len(results) = Len(steps)

\* a live apply of a plan of at least three steps that stopped at a failing
\* step after the first and before the last
C1_Witness ==
    /\ execute /\ xpc = "returned" /\ ~ret.ok
    /\ Len(ret.results) >= 2
    /\ Len(ret.results) < Len(steps)

\* C2: a dry run never invokes the adapter; every step is recorded ok with
\* return code 0, and apply_plan returns ok with one result per step, in
\* plan order.
C2_DryRunIsIdentity ==
    (~execute /\ xpc # "idle") =>
        /\ ActRuns = <<>>
        /\ xpc \in {"loop", "returned"}
        /\ \A i \in 1..Len(results) :
              results[i] = [title |-> steps[i].title, ok |-> TRUE, returncode |-> 0]
        /\ xpc = "returned" =>
              /\ ret.ok = TRUE
              /\ ret.results = results
              /\ Len(results) = Len(steps)

C2_Witness ==
    /\ ~execute /\ xpc = "returned" /\ Len(steps) >= 2 /\ Len(ret.results) = Len(steps)

\* C3: when validate_config reports an issue for the configuration given to
\* `plan` or `apply`, the CLI returns 2 having downloaded nothing, built no
\* plan, taken no snapshot and executed no step.
C3_ValidationRejectsFirst ==
    (argv # None /\ argv.cmd \in {"plan", "apply"}
        /\ validate_config(argv.config) # <<>>) =>
        /\ exit_code = 2
        /\ log = <<Event("validate_config", 0, None)>>
        /\ snapshot = None
        /\ xpc = "idle"

C3_Witness ==
    /\ argv # None /\ argv.cmd = "apply" /\ argv.execute
    /\ validate_config(argv.config) # <<>>
    /\ assets # {"opencore", "recovery"}
    /\ exit_code = 2

\* C4: no plan step is executed by `apply --execute` or by the TUI's Apply
\* Live on a host where run_preflight reports a failing check.
C4_LiveApplyNeedsPreflight ==
    (xpc = "run" /\ caller \in {"cli", "tui"}) => run_preflight_all_ok(host_ready)

\* C5: build_plan emits no step for a configuration on which
\* validate_config reports an issue, and apply_plan does not run a plan
\* built from one.
C5_DefensiveRejection ==
    (plan_config # None /\ validate_config(plan_config) # <<>>) =>
        /\ steps = <<>>
        /\ results = <<>>

\* C6: in every live apply by a front-end, create_snapshot has returned
\* before the adapter runs the first plan step (and after the worker thread
\* of that apply was started, in the TUI).
C6_SnapshotBeforeFirstStep ==
    caller # "direct" =>
        \A j \in 1..Len(log) :
            log[j].ev = "run" =>
                \E i \in 1..(j - 1) :
                    /\ log[i].ev = "create_snapshot"
                    /\ \A k \in i..j : log[k].ev # "thread_start"

\* a live TUI apply whose plan failed at a step
C6_Witness ==
    /\ caller = "tui" /\ execute /\ xpc = "returned" /\ ~ret.ok
    /\ snapshot # None

\* C8: with a callback, every step gets exactly two callbacks: (None) before
\* its command is run and (its recorded result) after; both precede the next
\* step's first callback, the failing step's second callback precedes the
\* return, and no later step gets any.
C8_CallbackProtocol ==
    (on_step /\ xpc # "idle") =>
        LET n == Len(results)
            w == IF execute THEN 3 ELSE 2
            inflight == IF xpc \in {"run", "raised"} THEN 1 ELSE 0
        IN /\ Len(ActCallbacks) = 2 * n + inflight
           /\ Len(ActSteps) = w * n + (w - 1) * inflight
           /\ \A i \in 1..n :
                /\ ActSteps[w * (i - 1) + 1] = Event("on_step", i, None)
                /\ execute => ActSteps[w * (i - 1) + 2] = Event("run", i, None)
                /\ ActSteps[w * i] = Event("on_step", i, results[i])
           /\ inflight = 1 =>
                /\ ActSteps[w * n + 1] = Event("on_step", n + 1, None)
                /\ ActSteps[w * n + 2] = Event("run", n + 1, None)
           /\ xpc = "returned" => (ret.results = results /\ Len(ActCallbacks) = 2 * Len(ret.results))

C8_Witness ==
    /\ on_step /\ execute /\ xpc = "returned" /\ ~ret.ok
    /\ Len(ret.results) >= 2 /\ Len(ret.results) < Len(steps)
    /\ Len(ActCallbacks) = 2 * Len(ret.results)

Failed(r) == r # "ok"
Last(s) == s[Len(s)]

\* C7: a call of _download_file or _download_file_with_token that started
\* with neither dest nor dest.part in place leaves dest and no dest.part
\* when it returns, and neither of them when it raises, wherever its
\* attempts failed.
C7_AtomicDownload ==
    (clean_start /\ dpc \in {"returned", "raised"}) =>
        /\ ~fs[Part(dl_dest)].exists
        /\ fs[dl_dest].exists <=> (dpc = "returned")

\* a call that raised after one attempt failed at the connection, one
\* mid-stream with a chunk already written, and one at the rename
C7_Witness ==
    /\ clean_start /\ dpc = "raised"
    /\ attempt_results = <<"urlopen_error", "read_error", "rename_error">>
    /\ ~fs[dl_dest].exists

\* C9: one call of the primitive makes at most 3 attempts; every attempt
\* before the last one made has failed; the call returns at the first
\* successful attempt with dest holding what that attempt received; a new attempt
\* is started only after fewer than 3; and the call raises DownloadError
\* exactly when 3 attempts have failed.
C9_AtMostThreeAttempts ==
    dpc # "idle" =>
        /\ attempts_made <= 3
        /\ Len(attempt_results) <= attempts_made
        /\ \A i \in 1..(Len(attempt_results) - 1) : Failed(attempt_results[i])
        /\ dpc = "returned" <=>
             (attempt_results # <<>> /\ Last(attempt_results) = "ok")
        /\ dpc = "returned" =>
             /\ fs[dl_dest].exists
             /\ \A i \in 1..Len(fs[dl_dest].data) :
                  fs[dl_dest].data[i] = Len(attempt_results)
        /\ dpc = "try" =>
             (attempts_made = Len(attempt_results) /\ attempts_made < 3)
        /\ dpc = "raised" <=>
             (Len(attempt_results) = 3 /\ \A i \in 1..3 : Failed(attempt_results[i]))
        /\ dpc = "raised" => dl_error = DownloadError("Download failed after 3 attempts")

\* a call that succeeded at its third attempt
C9_Witness ==
    /\ dpc = "returned" /\ attempts_made = 3
    /\ Failed(attempt_results[1]) /\ Failed(attempt_results[2])
    /\ fs[dl_dest].data = Payload(3)

NoSessionCookie == session = "no_cookie"
ImageInfoIncomplete ==
    image_info # None /\ \E i \in 1..Len(RequiredKeys) : RequiredKeys[i] \notin image_info.keys
ReleaseLacksAsset ==
    release # None /\ ~\E a \in release.assets : a.name = AssetName
FailedFast ==
    /\ fpc = "raised"
    /\ dl_error # None /\ dl_error.type = "DownloadError"
    /\ file_starts = 0
    /\ dpc = "idle"

\* C10: a recovery-session response without a session cookie, an image-info
\* response lacking one of AU, AT, CU, CT, or a release without the named
\* asset makes the flow raise DownloadError with that request issued exactly
\* once and no file download started.
C10_ProtocolErrorsFailFast ==
    /\ NoSessionCookie => (reqs["session"] = 1 /\ FailedFast)
    /\ ImageInfoIncomplete => (reqs["image_info"] = 1 /\ FailedFast)
    /\ ReleaseLacksAsset => (reqs[release.from] = 1 /\ FailedFast)

\* the latest release, asked for after the tag's request failed, carries
\* only another macOS version's image
C10_Witness ==
    /\ ReleaseLacksAsset /\ release.from = "release_latest"
    /\ release.assets # {}
    /\ fpc = "raised"

\* C11: every failure of download_opencore or download_recovery reaches the
\* caller as a DownloadError; no other exception type escapes.
C11_TypedDownloadFailure ==
    fpc = "raised" => (dl_error # None /\ dl_error.type = "DownloadError")

\* ------------------------------------------------------------------------
\* smbios.py: the identity generators (strings are sequences of characters)
\* ------------------------------------------------------------------------

BASE34 == <<"0", "1", "2", "3", "4", "5", "6", "7", "8", "9", "A", "B", "C", "D", "E", "F", "G", "H", "J", "K", "L", "M", "N", "P", "Q", "R", "S", "T", "U", "V", "W", "X", "Y", "Z">>
_YEAR_CHARS == <<"C", "D", "F", "G", "H", "J", "K", "L", "M", "N">>
HexDigitsLower == <<"0", "1", "2", "3", "4", "5", "6", "7", "8", "9", "a", "b", "c", "d", "e", "f">>
HexDigitsUpper == <<"0", "1", "2", "3", "4", "5", "6", "7", "8", "9", "A", "B", "C", "D", "E", "F">>
DecDigits == <<"0", "1", "2", "3", "4", "5", "6", "7", "8", "9">>
AsciiLower == <<"a", "b", "c", "d", "e", "f", "g", "h", "i", "j", "k", "l", "m", "n", "o", "p", "q", "r", "s", "t", "u", "v", "w", "x", "y", "z">>
AsciiUpper == <<"A", "B", "C", "D", "E", "F", "G", "H", "I", "J", "K", "L", "M", "N", "O", "P", "Q", "R", "S", "T", "U", "V", "W", "X", "Y", "Z">>

\* str.index(ch), 0-based
IndexIn(alphabet, ch) == (CHOOSE i \in 1..Len(alphabet) : alphabet[i] = ch) - 1

\* str.upper()
UpperChar(ch) ==
    IF \E i \in 1..26 : AsciiLower[i] = ch
    THEN AsciiUpper[IndexIn(AsciiLower, ch) + 1]
    ELSE ch
Upper(s) == [i \in 1..Len(s) |-> UpperChar(s[i])]

\* str.replace(ch, "")
RECURSIVE Without(_, _)
Without(s, ch) ==
    IF s = <<>> THEN <<>>
    ELSE (IF Head(s) = ch THEN <<>> ELSE <<Head(s)>>) \o Without(Tail(s), ch)

\* s[:n]
Prefix(s, n) == SubSeq(s, 1, IF Len(s) < n THEN Len(s) ELSE n)

\* ":".join(parts)
RECURSIVE JoinColon(_)
JoinColon(parts) ==
    IF Len(parts) = 0 THEN <<>>
    ELSE IF Len(parts) = 1 THEN parts[1]
    ELSE parts[1] \o <<":">> \o JoinColon(Tail(parts))

\* f"{b:02X}"
Hex2(b) == <<HexDigitsUpper[(b \div 16) + 1], HexDigitsUpper[(b % 16) + 1]>>

\* f"{n:02d}" and str(n % 10)
Dec2(n) == <<DecDigits[((n \div 10) % 10) + 1], DecDigits[(n % 10) + 1]>>
Dec1(n) == <<DecDigits[(n % 10) + 1]>>

SMBIOS_MODELS ==
    [m \in {"ventura", "sonoma", "sequoia", "tahoe"} |-> <<"M", "a", "c", "P", "r", "o", "7", ",", "1">>]
DEFAULT_SMBIOS_MODEL == <<"M", "a", "c", "P", "r", "o", "7", ",", "1">>

model_for_macos(macos) ==
    IF macos \in DOMAIN SMBIOS_MODELS THEN SMBIOS_MODELS[macos] ELSE DEFAULT_SMBIOS_MODEL

\* _encode_year_week: the year character and the week character
encode_year_week(year, week) ==
    LET decade_offset == (year - 2010) % 10
    IN IF week <= 26
       THEN <<_YEAR_CHARS[decade_offset + 1], BASE34[week + 1]>>
       ELSE <<_YEAR_CHARS[((decade_offset + 1) % 10) + 1], BASE34[(week - 26) + 1]>>

\* _encode_line
encode_line(line) ==
    <<BASE34[(line \div (34 * 34)) + 1],
      BASE34[((line \div 34) % 34) + 1],
      BASE34[(line % 34) + 1]>>

\* _build_apple_serial
build_apple_serial(mfg) ==
    mfg.country \o encode_year_week(mfg.year, mfg.week)
                \o encode_line(mfg.line) \o mfg.model_code

\* the weighted sum over the first 15 characters of an MLB: weight 3 at the
\* odd (0-based) positions, 1 at the even ones
RECURSIVE PrefixSum(_, _)
PrefixSum(prefix, i) ==
    IF i > Len(prefix) THEN 0
    ELSE (IF (i - 1) % 2 = 1 THEN 3 ELSE 1) * IndexIn(BASE34, prefix[i])
         + PrefixSum(prefix, i + 1)

\* (mutation) the last block is a constant instead of the checksum digit
build_apple_mlb_unchecked(mfg) ==
    mfg.country \o Dec1(mfg.year) \o Dec2(mfg.week)
                \o mfg.block1 \o mfg.block2 \o mfg.board \o <<"0", "0">>

\* _build_apple_mlb
build_apple_mlb(mfg) ==
    LET prefix == mfg.country \o Dec1(mfg.year) \o Dec2(mfg.week)
                     \o mfg.block1 \o mfg.block2 \o mfg.board
        j16 == (34 - (PrefixSum(prefix, 1) % 34)) % 34
    IN prefix \o <<"0", BASE34[j16 + 1]>>

\* _verify_mlb_checksum: weight 3 where the parity of the 0-based position
\* equals the parity of the length, else 1
RECURSIVE WeightedSum(_, _)
WeightedSum(mlb, i) ==
    IF i > Len(mlb) THEN 0
    ELSE (IF (i - 1) % 2 = Len(mlb) % 2 THEN 3 ELSE 1) * IndexIn(BASE34, mlb[i])
         + WeightedSum(mlb, i + 1)
verify_mlb_checksum(mlb) == WeightedSum(mlb, 1) % 34 = 0

\* `while actual_year < year_lo: actual_year += 10`
RECURSIVE AtLeast(_, _)
AtLeast(actual_year, year_lo) ==
    IF actual_year < year_lo THEN AtLeast(actual_year + 10, year_lo) ELSE actual_year

\* _generate_apple_mlb: country, year and week are read back from the
\* serial; board and blocks are drawn anew
generate_apple_mlb(serial, draw) ==
    LET year_idx == IndexIn(_YEAR_CHARS, serial[4])
        week_offset == IndexIn(BASE34, serial[5])
    IN build_apple_mlb([country |-> SubSeq(serial, 1, 3),
                        year |-> AtLeast(2010 + year_idx, 2019),
                        week |-> week_offset,
                        board |-> draw.board,
                        block1 |-> draw.block1,
                        block2 |-> draw.block2])

\* generate_rom_from_mac
generate_rom_from_mac(mac) == Upper(Prefix(Without(mac, ":"), 12))

\* generate_mac: the first byte gets the local-admin bit and loses the
\* multicast bit
generate_mac(bytes) ==
    LET b0 == bytes[1]
        with_local == IF (b0 \div 2) % 2 = 1 THEN b0 ELSE b0 + 2
        first_byte == with_local - (with_local % 2)
    IN JoinColon(<<Hex2(first_byte)>> \o [i \in 1..5 |-> Hex2(bytes[i + 1])])

\* generate_smbios: [serial, mlb, uuid, rom, model, mac]
generate_smbios(macos, apple_services, gen) ==
    IF apple_services
    THEN LET mac == generate_mac(gen.mac_bytes)
         IN [serial |-> build_apple_serial(gen.mfg),
             mlb |-> build_apple_mlb(gen.mfg),
             uuid |-> Upper(gen.uuid4),
             rom |-> generate_rom_from_mac(mac),
             model |-> model_for_macos(macos),
             mac |-> mac]
    ELSE [serial |-> gen.serial_chars,
          mlb |-> gen.mlb_chars,
          uuid |-> Upper(gen.uuid4),
          rom |-> Upper(gen.token_hex),
          model |-> model_for_macos(macos),
          mac |-> <<>>]

\* draws of the random sources: secrets.choice / randbelow (manufacturing
\* data, plain serial and MLB characters, MAC bytes), secrets.token_hex and
\* uuid.uuid4 (two draws: the SMBIOS UUID and the vmgenid)
GenSamples ==
    { [mfg |-> [country |-> <<"C", "0", "2">>, year |-> 2019, week |-> 1, line |-> 0,
                model_code |-> <<"P", "7", "Q", "M">>, board |-> <<"K", "3", "F", "7">>,
                block1 |-> <<"2", "0", "0">>, block2 |-> <<"Q", "0">>],
       serial_chars |-> <<"A", "1", "B", "2", "C", "3", "D", "4", "E", "5", "F", "6">>,
       mlb_chars |-> <<"Z", "Y", "9", "X", "W", "8", "V", "U", "7", "T", "S", "6", "R", "Q", "5", "P", "O">>,
       mac_bytes |-> <<0, 0, 0, 0, 0, 0>>,
       mac_bytes2 |-> <<1, 2, 3, 4, 5, 6>>,
       token_hex |-> <<"0", "0", "a", "1", "b", "2", "c", "3", "d", "4", "e", "5">>,
       uuid4 |-> <<"3", "f", "2", "b", "8", "c", "1", "a", "-", "7", "d", "4", "e", "-", "4", "a", "6", "b", "-", "9", "c", "0", "d", "-", "1", "e", "2", "f", "3", "a", "4", "b", "5", "c", "6", "d">>,
       vmgenid4 |-> <<"0", "0", "0", "0", "0", "0", "0", "0", "-", "0", "0", "0", "0", "-", "4", "0", "0", "0", "-", "8", "0", "0", "0", "-", "0", "0", "0", "0", "0", "0", "0", "0", "0", "0", "0", "0">>],
      [mfg |-> [country |-> <<"C", "K", "2">>, year |-> 2023, week |-> 52, line |-> 3399,
                model_code |-> <<"N", "5", "R", "N">>, board |-> <<"K", "3", "F", "7">>,
                block1 |-> <<"3", "0", "1">>, block2 |-> <<"Q", "Z">>],
       serial_chars |-> <<"Z", "Z", "Z", "Z", "Z", "Z", "Z", "Z", "Z", "Z", "Z", "Z">>,
       mlb_chars |-> <<"0", "0", "0", "0", "0", "0", "0", "0", "0", "0", "0", "0", "0", "0", "0", "0", "0">>,
       mac_bytes |-> <<255, 255, 171, 205, 239, 16>>,
       mac_bytes2 |-> <<253, 9, 10, 11, 12, 13>>,
       token_hex |-> <<"f", "f", "f", "f", "f", "f", "f", "f", "f", "f", "f", "f">>,
       uuid4 |-> <<"f", "f", "f", "f", "f", "f", "f", "f", "-", "f", "f", "f", "f", "-", "4", "f", "f", "f", "-", "b", "f", "f", "f", "-", "f", "f", "f", "f", "f", "f", "f", "f", "f", "f", "f", "f">>,
       vmgenid4 |-> <<"a", "b", "c", "d", "e", "f", "a", "b", "-", "c", "d", "e", "f", "-", "4", "a", "b", "c", "-", "8", "d", "e", "f", "-", "a", "b", "c", "d", "e", "f", "a", "b", "c", "d", "e", "f">>],
      [mfg |-> [country |-> <<"C", "0", "7">>, year |-> 2021, week |-> 27, line |-> 1234,
                model_code |-> <<"K", "7", "G", "F">>, board |-> <<"K", "3", "F", "7">>,
                block1 |-> <<"6", "0", "9">>, block2 |-> <<"Q", "H">>],
       serial_chars |-> <<"0", "1", "2", "3", "4", "5", "6", "7", "8", "9", "A", "B">>,
       mlb_chars |-> <<"A", "B", "C", "D", "E", "F", "G", "H", "I", "J", "K", "L", "M", "N", "O", "P", "Q">>,
       mac_bytes |-> <<1, 127, 128, 64, 32, 9>>,
       mac_bytes2 |-> <<2, 200, 100, 50, 25, 12>>,
       token_hex |-> <<"d", "e", "a", "d", "b", "e", "e", "f", "0", "1", "2", "3">>,
       uuid4 |-> <<"1", "2", "3", "4", "5", "6", "7", "8", "-", "9", "a", "b", "c", "-", "4", "d", "e", "f", "-", "8", "0", "1", "2", "-", "3", "4", "5", "6", "7", "8", "9", "a", "b", "c", "d", "e">>,
       vmgenid4 |-> <<"0", "a", "1", "b", "2", "c", "3", "d", "-", "4", "e", "5", "f", "-", "4", "a", "6", "b", "-", "8", "c", "7", "d", "-", "9", "e", "0", "f", "1", "a", "2", "b", "3", "c", "4", "d">>] }

\* ------------------------------------------------------------------------
\* planner.py: build_plan with the VmConfig values each argv embeds, and the
\* VmConfig object as the call leaves it
\* ------------------------------------------------------------------------

Field(field, value) == [field |-> field, value |-> value]

\* _smbios_steps: the assignments to config, and the values of the locals
\* serial, smbios_uuid and model that go into the --smbios1 value (serial
\* and model base64-encoded, the UUID as it is)
smbios_identity(config, gen) ==
    IF config.no_smbios
    THEN [config |-> config, emitted |-> FALSE, smbios_uuid |-> <<>>]
    ELSE LET identity == generate_smbios(config.macos, config.apple_services, gen)
             after ==
                IF config.smbios_serial = <<>>
                THEN [config EXCEPT
                        !.smbios_serial = identity.serial,
                        !.smbios_uuid = identity.uuid,
                        !.smbios_model = identity.model,
                        !.smbios_mlb = identity.mlb,
                        !.smbios_rom = identity.rom,
                        !.static_mac = IF identity.mac # <<>> /\ config.static_mac = <<>>
                                       THEN identity.mac ELSE @]
                ELSE config
         IN [config |-> after, emitted |-> TRUE, smbios_uuid |-> after.smbios_uuid]

\* (mutation) the ROM is drawn on its own instead of derived from the MAC
rom_independent_of_mac(mac) == <<"0", "1", "2", "3", "4", "5", "6", "7", "8", "9", "A", "B">>

\* the ROM stored by _apple_services_steps
rom_for_mac(mac) == generate_rom_from_mac(mac)

\* _apple_services_steps: the assignments to config
apple_services_identity(config, gen) ==
    IF ~config.apple_services THEN config
    ELSE LET vmgenid == IF config.vmgenid = <<>> THEN Upper(gen.vmgenid4)
                        ELSE config.vmgenid
             static_mac == IF config.static_mac = <<>> THEN generate_mac(gen.mac_bytes2)
                           ELSE config.static_mac
         IN [config EXCEPT !.vmgenid = vmgenid,
                           !.static_mac = static_mac,
                           !.smbios_rom = rom_for_mac(static_mac)]

\* _cpu_args: which -cpu flag is chosen
cpu_args(cpu, override) ==
    IF override # <<>> THEN "override"
    ELSE IF cpu.needs_emulated_cpu THEN "Cascadelake-Server"
    ELSE "host"

\* what detect_cpu_info can return
CpuSamples ==
    { [vendor |-> "AMD", needs_emulated_cpu |-> TRUE],
      [vendor |-> "Intel", needs_emulated_cpu |-> TRUE],
      [vendor |-> "Intel", needs_emulated_cpu |-> FALSE] }

\* the string-valued VmConfig fields a step's argv embeds: `before` is the
\* object as build_plan received it, `s` the result of _smbios_steps and
\* `after` the object once _apple_services_steps has run
StepFields(title, before, s, after) ==
    CASE title = "Create VM shell" ->
           {Field("name", before.name), Field("bridge", before.bridge)}
      [] title = "Apply macOS hardware profile" ->
           IF before.cpu_model # <<>> THEN {Field("cpu_model", before.cpu_model)} ELSE {}
      [] title = "Set SMBIOS identity" ->
           {Field("smbios_uuid", s.smbios_uuid)}
      [] title = "Configure vmgenid for Apple services" ->
           {Field("vmgenid", after.vmgenid)}
      [] title = "Configure static MAC for Apple services" ->
           {Field("bridge", after.bridge), Field("static_mac", after.static_mac)}
      [] title \in {"Attach EFI + TPM", "Create main disk",
                    "Import and attach OpenCore disk"} ->
           {Field("storage", after.storage)}
      [] title = "Build OpenCore boot disk" ->
           (IF after.apple_services /\ after.smbios_serial # <<>>
            THEN {Field("smbios_serial", after.smbios_serial),
                  Field("smbios_model", after.smbios_model),
                  Field("smbios_uuid", after.smbios_uuid),
                  Field("smbios_mlb", after.smbios_mlb),
                  Field("smbios_rom", after.smbios_rom)}
            ELSE {})
           \cup (IF before.installer_path # <<>>
                 THEN {Field("installer_path", before.installer_path)} ELSE {})
      [] title = "Stamp recovery with Apple icon flavour" ->
           IF before.installer_path # <<>>
           THEN {Field("installer_path", before.installer_path)} ELSE {}
      [] title = "Import and attach macOS recovery" ->
           {Field("storage", after.storage)}
           \cup (IF before.installer_path # <<>>
                 THEN {Field("installer_path", before.installer_path)} ELSE {})
      [] OTHER -> {}

\* build_plan(config) as it runs with the random draws `gen` on a host with
\* CPU `cpu`: the steps, and the caller's VmConfig object after the call
build_plan_argv(config, gen, cpu) ==
    LET plan == build_plan(config)
    IN IF plan.raised
       THEN [raised |-> TRUE, steps |-> <<>>, config |-> config]
       ELSE LET s == smbios_identity(config, gen)
                after == apple_services_identity(s.config, gen)
            IN [raised |-> FALSE,
                steps |-> [i \in 1..Len(plan.steps) |->
                             [title |-> plan.steps[i].title,
                              vmid |-> plan.steps[i].vmid,
                              cpu_flag |-> cpu_args(cpu, config.cpu_model),
                              is_amd |-> (cpu.vendor = "AMD"),
                              fields |-> StepFields(plan.steps[i].title, config, s, after)]],
                config |-> after]

\* ------------------------------------------------------------------------
\* assets.py: _find_iso and resolve_opencore_path over one search root
\* ------------------------------------------------------------------------

\* the characters of file names, in code-point order
CodePoints == <<"-", ".", "0", "1", "2", "3", "4", "5", "6", "7", "8", "9", "A", "B", "C", "D", "E", "F", "G", "H", "I", "J", "K", "L", "M", "N", "O", "P", "Q", "R", "S", "T", "U", "V", "W", "X", "Y", "Z", "_", "a", "b", "c", "d", "e", "f", "g", "h", "i", "j", "k", "l", "m", "n", "o", "p", "q", "r", "s", "t", "u", "v", "w", "x", "y", "z">>
Ord(ch) == IndexIn(CodePoints, ch)

\* str.lower()
LowerChar(ch) ==
    IF \E i \in 1..26 : AsciiUpper[i] = ch
    THEN AsciiLower[IndexIn(AsciiUpper, ch) + 1]
    ELSE ch
Lower(s) == [i \in 1..Len(s) |-> LowerChar(s[i])]

\* a < b for two path names, as sorted() compares them
RECURSIVE LessStr(_, _)
LessStr(a, b) ==
    IF b = <<>> THEN FALSE
    ELSE IF a = <<>> THEN TRUE
    ELSE IF Head(a) = Head(b) THEN LessStr(Tail(a), Tail(b))
    ELSE Ord(Head(a)) < Ord(Head(b))

\* fnmatch(name, pattern) for patterns whose only wildcard is "*"
RECURSIVE fnmatch(_, _)
fnmatch(name, pattern) ==
    IF pattern = <<>> THEN name = <<>>
    ELSE IF Head(pattern) = "*"
    THEN fnmatch(name, Tail(pattern))
         \/ (name # <<>> /\ fnmatch(Tail(name), pattern))
    ELSE /\ name # <<>>
         /\ Head(name) = Head(pattern)
         /\ fnmatch(Tail(name), Tail(pattern))

MatchesAny(name, patterns) ==
    \E i \in 1..Len(patterns) : fnmatch(Lower(name), Lower(patterns[i]))

\* _find_iso: the candidates of the root are visited in sorted order and the
\* first one that matches any of the patterns is returned
find_iso(patterns, files) ==
    LET matching == {f \in files : MatchesAny(f, patterns)}
    IN IF matching = {}
       THEN [found |-> FALSE, name |-> <<>>]
       ELSE [found |-> TRUE,
             name |-> CHOOSE f \in matching :
                         \A g \in matching : g = f \/ LessStr(f, g)]

MacosChars ==
    [m \in {"ventura", "sonoma", "sequoia", "tahoe", "bigsur"} |->
        CASE m = "ventura" -> <<"v", "e", "n", "t", "u", "r", "a">>
          [] m = "sonoma"  -> <<"s", "o", "n", "o", "m", "a">>
          [] m = "sequoia" -> <<"s", "e", "q", "u", "o", "i", "a">>
          [] m = "tahoe"   -> <<"t", "a", "h", "o", "e">>
          [] m = "bigsur"  -> <<"b", "i", "g", "s", "u", "r">>]

\* the priority list of resolve_opencore_path
OpencorePatterns(macos) ==
    <<<<"O", "p", "e", "n", "C", "o", "r", "e", "-", "v", "2", "1", ".", "i", "s", "o">>,
      <<"o", "p", "e", "n", "c", "o", "r", "e", "-", "v", "2", "1", ".", "i", "s", "o">>,
      <<"o", "p", "e", "n", "c", "o", "r", "e", "-", "o", "s", "x", "-", "p", "r", "o", "x", "m", "o", "x", "-", "v", "m", ".", "i", "s", "o">>,
      <<"o", "p", "e", "n", "c", "o", "r", "e", "-">> \o MacosChars[macos] \o <<".", "i", "s", "o">>,
      <<"o", "p", "e", "n", "c", "o", "r", "e", "*">> \o MacosChars[macos] \o <<"*", ".", "i", "s", "o">>,
      <<"o", "p", "e", "n", "c", "o", "r", "e", "*", ".", "i", "s", "o">>>>

\* resolve_opencore_path: the match, else the default name in the ISO root
resolve_opencore_path(macos, files) ==
    LET match == find_iso(OpencorePatterns(macos), files)
    IN IF match.found THEN match
       ELSE [found |-> FALSE, name |-> <<"o", "p", "e", "n", "c", "o", "r", "e", "-">> \o MacosChars[macos] \o <<".", "i", "s", "o">>]

\* file names found in /var/lib/vz/template/iso
RecoveryIso == <<"s", "e", "q", "u", "o", "i", "a", "-", "r", "e", "c", "o", "v", "e", "r", "y", ".", "i", "s", "o">>
OpencoreSequoiaIso == <<"o", "p", "e", "n", "c", "o", "r", "e", "-", "s", "e", "q", "u", "o", "i", "a", ".", "i", "s", "o">>
OpencoreLegacyIso == <<"o", "p", "e", "n", "c", "o", "r", "e", "-", "l", "e", "g", "a", "c", "y", ".", "i", "s", "o">>
OpenCoreV21Iso == <<"O", "p", "e", "n", "C", "o", "r", "e", "-", "v", "2", "1", ".", "i", "s", "o">>
OpencoreV21LowerIso == <<"o", "p", "e", "n", "c", "o", "r", "e", "-", "v", "2", "1", ".", "i", "s", "o">>
OpencoreVmIso == <<"o", "p", "e", "n", "c", "o", "r", "e", "-", "o", "s", "x", "-", "p", "r", "o", "x", "m", "o", "x", "-", "v", "m", ".", "i", "s", "o">>
OpencoreSequoiaOldIso == <<"o", "p", "e", "n", "c", "o", "r", "e", "-", "s", "e", "q", "u", "o", "i", "a", "-", "o", "l", "d", ".", "i", "s", "o">>
OpencoreTahoeIso == <<"o", "p", "e", "n", "c", "o", "r", "e", "-", "t", "a", "h", "o", "e", ".", "i", "s", "o">>
OpencoreSequoiaUpperIso == <<"O", "P", "E", "N", "C", "O", "R", "E", "-", "S", "E", "Q", "U", "O", "I", "A", ".", "I", "S", "O">>

DirSamples ==
    { {},
      {RecoveryIso},
      {OpencoreSequoiaIso},
      {OpencoreSequoiaIso, RecoveryIso},
      {OpencoreLegacyIso, OpencoreSequoiaIso},
      {OpenCoreV21Iso, OpencoreSequoiaIso},
      {OpencoreVmIso, OpencoreSequoiaOldIso},
      {OpencoreTahoeIso, OpencoreV21LowerIso, OpencoreSequoiaUpperIso} }

\* ------------------------------------------------------------------------
\* one call of validate_config, of build_plan or of resolve_opencore_path
\* ------------------------------------------------------------------------

\* configurations with identity fields set by the user, valid and not
IdentitySamples ==
    { [BaseConfig EXCEPT !.cores = 6],
      [BaseConfig EXCEPT !.cores = 2],
      [BaseConfig EXCEPT !.cores = 3, !.macos = "sonoma"],
      [BaseConfig EXCEPT !.macos = "ventura", !.no_smbios = TRUE],
      [BaseConfig EXCEPT !.macos = "tahoe", !.apple_services = TRUE],
      [BaseConfig EXCEPT !.apple_services = TRUE, !.no_smbios = TRUE],
      [BaseConfig EXCEPT !.apple_services = TRUE,
                         !.static_mac = <<"0", "2", ":", "A", "B", ":", "C", "D", ":", "E", "F", ":", "0", "1", ":", "2", "3">>],
      [BaseConfig EXCEPT !.apple_services = TRUE,
                         !.static_mac = <<"0", "2", ":", "A", "B", ":", "C", "D", ":", "E", "F", ":", "0", "1", ":", "2", "3">>,
                         !.smbios_rom = <<"F", "F", "F", "F", "F", "F", "F", "F", "F", "F", "F", "F">>,
                         !.vmgenid = <<"1", "1", "1", "1", "1", "1", "1", "1", "-", "2", "2", "2", "2", "-", "4", "3", "3", "3", "-", "8", "4", "4", "4", "-", "5", "5", "5", "5", "5", "5", "5", "5", "5", "5", "5", "5">>],
      [BaseConfig EXCEPT !.smbios_serial = <<"C", "0", "2", "Z", "K", "1", "A", "B", "P", "7", "Q", "M">>],
      [BaseConfig EXCEPT !.smbios_serial = <<"C", "0", "2", "Z", "K", "1", "A", "B", "P", "7", "Q", "M">>,
                         !.apple_services = TRUE],
      [BaseConfig EXCEPT !.smbios_serial = <<"C", "0", "2", "Z", "K", "1", "A", "B", "P", "7", "Q", "M">>,
                         !.smbios_uuid = <<"A", "A", "A", "A", "A", "A", "A", "A", "-", "B", "B", "B", "B", "-", "4", "C", "C", "C", "-", "8", "D", "D", "D", "-", "E", "E", "E", "E", "E", "E", "E", "E", "E", "E", "E", "E">>,
                         !.smbios_mlb = <<"C", "0", "2", "9", "2", "0", "2", "0", "0", "Q", "0", "K", "3", "F", "7", "0", "A">>,
                         !.smbios_rom = <<"0", "2", "A", "B", "C", "D", "E", "F", "0", "1", "2", "3">>,
                         !.smbios_model = <<"M", "a", "c", "P", "r", "o", "7", ",", "1">>,
                         !.apple_services = TRUE],
      [BaseConfig EXCEPT !.installer_path = <<"/", "v", "a", "r", "/", "l", "i", "b", "/", "v", "z", "/", "t", "e", "m", "p", "l", "a", "t", "e", "/", "i", "s", "o", "/", "t", "a", "h", "o", "e", "-", "f", "u", "l", "l", ".", "i", "s", "o">>,
                         !.macos = "tahoe",
                         !.cpu_model = <<"S", "k", "y", "l", "a", "k", "e", "-", "S", "e", "r", "v", "e", "r", "-", "I", "B", "R", "S">>],
      [BaseConfig EXCEPT !.smbios_serial = <<"C", "0", "2", "Z", "K", "1", "A", "B", "P", "7", "Q">>],
      [BaseConfig EXCEPT !.smbios_mlb = <<"c", "0", "2", "9", "2", "0", "2", "0", "0", "q", "0", "k", "3", "f", "7", "0", "a">>],
      [BaseConfig EXCEPT !.smbios_rom = <<"0", "2", "A", "B", "C", "D", "E", "F", "0", "1", "2", "G">>],
      [BaseConfig EXCEPT !.smbios_uuid = <<"a", "a", "a", "a", "a", "a", "a", "a", "-", "b", "b", "b", "b", "-", "4", "c", "c", "c", "-", "8", "d", "d", "d", "-", "e", "e", "e", "e", "e", "e", "e", "e", "e", "e", "e", "e">>],
      [BaseConfig EXCEPT !.smbios_model = <<"M", "a", "c", " ", "P", "r", "o">>],
      [BaseConfig EXCEPT !.cpu_model = <<"h", "o", "s", "t", ";", "r", "e", "b", "o", "o", "t">>],
      [BaseConfig EXCEPT !.static_mac = <<"0", "2", ":", "a", "b", ":", "c", "d", ":", "e", "f", ":", "0", "1", ":", "2", "3">>,
                         !.apple_services = TRUE],
      [BaseConfig EXCEPT !.vmgenid = <<"1", "2", "3", "4">>],
      [BaseConfig EXCEPT !.installer_path = <<"/", "t", "m", "p", "/", "a", " ", "b", ".", "i", "s", "o">>],
      [BaseConfig EXCEPT !.bridge = <<"v", "m", "b", "r">>],
      [BaseConfig EXCEPT !.name = <<"-", "v", "m">>],
      [BaseConfig EXCEPT !.vmid = 99, !.cores = 1, !.storage = <<>>] }

PureConfigSamples == ConfigSamples \cup IdentitySamples

\* validate_config(config): the issue list; no field is assigned
CallValidateConfig ==
    /\ p_pc = "init"
    /\ p_pc' = "validate_config"
    /\ p_out' = [issues |-> validate_config(p_config), config |-> p_config]
    /\ UNCHANGED <<p_config, p_gen, p_cpu, p_dir, front_vars, dl_vars>>

\* build_plan(config)
CallBuildPlan ==
    /\ p_pc = "init"
    /\ p_pc' = "build_plan"
    /\ p_out' = build_plan_argv(p_config, p_gen, p_cpu)
    /\ UNCHANGED <<p_config, p_gen, p_cpu, p_dir, front_vars, dl_vars>>

\* resolve_opencore_path(config.macos)
CallResolveOpencore ==
    /\ p_pc = "init"
    /\ p_pc' = "resolve_opencore_path"
    /\ p_out' = resolve_opencore_path(p_config.macos, p_dir)
    /\ UNCHANGED <<p_config, p_gen, p_cpu, p_dir, front_vars, dl_vars>>

\* ------------------------------------------------------------------------
\* defaults.py: detect_iso_storage
\* ------------------------------------------------------------------------

DEFAULT_ISO_DIR == "/var/lib/vz/template/iso"

\* one line of `pvesm status -content iso` after the header: the number of
\* its columns, its status column, and what _resolve_iso_path gives for its
\* storage id ("" for None)
StorageLine(columns, status, path) ==
    [columns |-> columns, status |-> status, path |-> path]

LocalLine == StorageLine(7, "active", DEFAULT_ISO_DIR)
NasLine == StorageLine(7, "active", "/mnt/pve/nas-iso/template/iso")
OfflineLine == StorageLine(7, "inactive", "/mnt/pve/offline-nas/template/iso")
UnresolvedLine == StorageLine(7, "active", "")
ShortLine == StorageLine(3, "active", "/mnt/pve/short/template/iso")

\* what the hypervisor query can give: an exception, or the lines
PvesmSamples ==
    { [failed |-> TRUE, lines |-> <<>>],
      [failed |-> FALSE, lines |-> <<>>],
      [failed |-> FALSE, lines |-> <<LocalLine>>],
      [failed |-> FALSE, lines |-> <<NasLine>>],
      [failed |-> FALSE, lines |-> <<LocalLine, NasLine>>],
      [failed |-> FALSE, lines |-> <<NasLine, LocalLine>>],
      [failed |-> FALSE, lines |-> <<NasLine, NasLine, OfflineLine>>],
      [failed |-> FALSE, lines |-> <<OfflineLine, UnresolvedLine, ShortLine>>],
      [failed |-> FALSE, lines |-> <<ShortLine, NasLine, UnresolvedLine, LocalLine>>] }

InSeq(x, seq) == \E i \in 1..Len(seq) : seq[i] = x

\* the loop of lines 135-140 over the first n lines
RECURSIVE CollectDirs(_, _)
CollectDirs(lines, n) ==
    IF n = 0 THEN <<>>
    ELSE LET dirs == CollectDirs(lines, n - 1)
             line == lines[n]
         IN IF line.columns >= 7 /\ line.status = "active"
                /\ line.path # "" /\ ~InSeq(line.path, dirs)
            THEN Append(dirs, line.path)
            ELSE dirs

\* `dirs.insert(0, DEFAULT_ISO_DIR)`
insert_default(dirs) == <<DEFAULT_ISO_DIR>> \o dirs

\* detect_iso_storage: the default directory is inserted only when absent
detect_iso_storage(pvesm) ==
    LET dirs == IF pvesm.failed THEN <<>>
                ELSE CollectDirs(pvesm.lines, Len(pvesm.lines))
    IN IF ~InSeq(DEFAULT_ISO_DIR, dirs) THEN insert_default(dirs) ELSE dirs

\* detect_iso_storage()
CallDetectIsoStorage ==
    /\ p_pc = "init"
    /\ p_pc' = "detect_iso_storage"
    /\ \E pvesm \in PvesmSamples :
         p_out' = [pvesm |-> pvesm, dirs |-> detect_iso_storage(pvesm)]
    /\ UNCHANGED <<p_config, p_gen, p_cpu, p_dir, front_vars, dl_vars>>

\* ------------------------------------------------------------------------
\* cli.py run_cli lines 166-174: the asset check, the automatic download of
\* what is missing, and the second asset check, over a tree of directories
\* (assets.py required_assets and its resolvers; downloader.py file names)
\* ------------------------------------------------------------------------

\* _find_iso: the roots in the order searched; /mnt/pve holds the one
\* mounted storage of the host, nas-iso
IsoRoots ==
    <<DEFAULT_ISO_DIR, "/root/OSX-PROXMOX/EFI", "/root/OSX-PROXMOX-fork/EFI",
      "/mnt/pve/nas-iso/template/iso">>

\* --iso-dir as given on the command line ("" when it is not given)
IsoDirSamples == {"", DEFAULT_ISO_DIR, "/mnt/pve/nas-iso/template/iso", "/srv/isos"}

TreeDirs == {IsoRoots[i] : i \in 1..Len(IsoRoots)} \cup (IsoDirSamples \ {""})

EmptyTree == [dir \in TreeDirs |-> {}]

\* the trees the host starts with: nothing, or an OpenCore image in place
TreeSamples ==
    {EmptyTree, [EmptyTree EXCEPT ![DEFAULT_ISO_DIR] = {OpencoreVmIso}]}

NotFoundIso == [found |-> FALSE, root |-> "", name |-> <<>>]

\* _find_iso over all the roots: the first root, in order, that holds a match
find_iso_roots(patterns, tree) ==
    LET hits == {i \in 1..Len(IsoRoots) : find_iso(patterns, tree[IsoRoots[i]]).found}
    IN IF hits = {} THEN NotFoundIso
       ELSE LET first == CHOOSE i \in hits : \A j \in hits : i <= j
            IN [found |-> TRUE, root |-> IsoRoots[first],
                name |-> find_iso(patterns, tree[IsoRoots[first]]).name]

TahoePatterns ==
    <<<<"*", "t", "a", "h", "o", "e", "*", "f", "u", "l", "l", "*", ".", "i", "s", "o">>, <<"*", "t", "a", "h", "o", "e", "*", ".", "i", "s", "o">>, <<"*", "2", "6", "*", ".", "i", "s", "o">>, <<"*", "I", "n", "s", "t", "a", "l", "l", "A", "s", "s", "i", "s", "t", "a", "n", "t", "*", ".", "i", "s", "o">>>>

RecoveryPatterns(macos) ==
    <<MacosChars[macos] \o <<"-", "r", "e", "c", "o", "v", "e", "r", "y", ".", "i", "s", "o">>,
      MacosChars[macos] \o <<"-", "r", "e", "c", "o", "v", "e", "r", "y", ".", "i", "m", "g">>,
      MacosChars[macos] \o <<"-", "r", "e", "c", "o", "v", "e", "r", "y", ".", "d", "m", "g">>>>

\* resolve_recovery_or_installer_path, for a configuration without
\* installer_path: `found` is what recovery_path.exists() gives, since the
\* default path of the last line would have matched the first pattern
resolve_recovery_or_installer_path(macos, tree) ==
    LET tahoe == IF macos = "tahoe" THEN find_iso_roots(TahoePatterns, tree)
                 ELSE NotFoundIso
    IN IF tahoe.found THEN tahoe
       ELSE find_iso_roots(RecoveryPatterns(macos), tree)

\* required_assets over the tree
required_assets_in(macos, tree) ==
    <<[name |-> "OpenCore image", kind |-> "opencore",
       ok |-> find_iso_roots(OpencorePatterns(macos), tree).found,
       downloadable |-> TRUE],
      [name |-> "Installer / recovery image", kind |-> "recovery",
       ok |-> resolve_recovery_or_installer_path(macos, tree).found,
       downloadable |-> (macos # "tahoe")]>>

\* download_opencore: dest = dest_dir / f"opencore-{macos}.iso"
opencore_dest(macos) == <<"o", "p", "e", "n", "c", "o", "r", "e", "-">> \o MacosChars[macos] \o <<".", "i", "s", "o">>

\* download_recovery: dest_dir / f"{macos}-recovery.img", and
\* dest_dir / "tahoe-full-installer.img" for tahoe
recovery_dest(macos) ==
    IF macos = "tahoe" THEN <<"t", "a", "h", "o", "e", "-", "f", "u", "l", "l", "-", "i", "n", "s", "t", "a", "l", "l", "e", "r", ".", "i", "m", "g">>
    ELSE MacosChars[macos] \o <<"-", "r", "e", "c", "o", "v", "e", "r", "y", ".", "i", "m", "g">>

\* `Path(config.iso_dir) if config.iso_dir else Path(detect_iso_storage()[0])`
dest_dir_of(iso_dir, pvesm) ==
    IF iso_dir # "" THEN iso_dir ELSE detect_iso_storage(pvesm)[1]

MissingDownloadable(checks) ==
    {checks[i].kind : i \in {k \in 1..Len(checks) : ~checks[k].ok /\ checks[k].downloadable}}

\* _auto_download_missing: the downloads that succeed leave their file in
\* dest_dir; one that raises DownloadError leaves nothing
auto_download_missing_tree(macos, dest_dir, tree, succeed) ==
    LET missing == MissingDownloadable(required_assets_in(macos, tree))
        written == {opencore_dest(macos) : k \in missing \cap succeed \cap {"opencore"}}
                   \cup {recovery_dest(macos) : k \in missing \cap succeed \cap {"recovery"}}
    IN [tree EXCEPT ![dest_dir] = @ \cup written]

\* run_cli lines 166-174 for a valid configuration of a supported release:
\* p_config holds macos and iso_dir, p_dir the tree, and p_gen what the
\* storage query returns and which of the downloads succeed
CallAutoDownload ==
    /\ p_pc = "init_assets"
    /\ p_pc' = "auto_download"
    /\ LET macos == p_config.macos
           before == required_assets_in(macos, p_dir)
           dest_dir == dest_dir_of(p_config.iso_dir, p_gen.pvesm)
           after == auto_download_missing_tree(macos, dest_dir, p_dir, p_gen.succeed)
       IN p_out' = [dest_dir |-> dest_dir,
                    downloaded |-> MissingDownloadable(before) \cap p_gen.succeed,
                    tree |-> after,
                    assets |-> required_assets_in(macos, after)]
    /\ UNCHANGED <<p_config, p_gen, p_cpu, p_dir, front_vars, dl_vars>>

\* ------------------------------------------------------------------------
\* one call of generate_smbios(apple_services=True), or of generate_serial
\* followed by generate_mlb, both in Apple-services mode
\* ------------------------------------------------------------------------

\* APPLE_PLATFORM_DATA["MacPro7,1"] and the MLB block pools
CountryCodes == {<<"C", "0", "2">>, <<"C", "0", "7">>, <<"C", "K", "2">>}
YearRange == 2019..2023
Weeks == 1..52
BoardCodes == {<<"K", "3", "F", "7">>}
MLB_BLOCK1 ==
    {<<"2", "0", "0">>, <<"6", "0", "0">>, <<"4", "0", "3">>, <<"4", "0", "4">>,
     <<"4", "0", "5">>, <<"3", "0", "3">>, <<"1", "0", "8">>, <<"2", "0", "7">>,
     <<"6", "0", "9">>, <<"5", "0", "1">>, <<"3", "0", "6">>, <<"1", "0", "2">>,
     <<"7", "0", "1">>, <<"3", "0", "1">>}
MLB_BLOCK2 == {<<"Q", BASE34[i]>> : i \in 1..Len(BASE34)}

\* the second blocks the draws below use
Block2Samples == {<<"Q", "0">>, <<"Q", "H">>, <<"Q", "Z">>}

\* _random_manufacturing_data together with the draws of _build_apple_mlb
MfgDraws ==
    {[country |-> c, year |-> y, week |-> w, line |-> 1234,
      model_code |-> <<"P", "L", "X", "V">>, board |-> b, block1 |-> b1, block2 |-> b2] :
        c \in CountryCodes, y \in YearRange, w \in Weeks,
        b \in BoardCodes, b1 \in MLB_BLOCK1, b2 \in Block2Samples}

\* generate_smbios(macos, apple_services=True): serial and MLB from the same
\* manufacturing data
CallGenerateSmbios ==
    /\ p_pc = "init_smbios"
    /\ p_pc' = "generate_smbios"
    /\ p_out' = [serial |-> build_apple_serial(p_gen), mlb |-> build_apple_mlb(p_gen)]
    /\ UNCHANGED <<p_config, p_gen, p_cpu, p_dir, front_vars, dl_vars>>

\* generate_serial(apple_services=True), then generate_mlb(True, serial)
\* with its own draw of board and blocks
CallGenerateMlb ==
    /\ p_pc = "init_smbios"
    /\ p_pc' = "generate_mlb"
    /\ \E b1 \in {<<"6", "0", "9">>}, b2 \in {<<"Q", "7">>, <<"Q", "Y">>} :
         LET serial == build_apple_serial(p_gen)
         IN p_out' = [serial |-> serial,
                      mlb |-> generate_apple_mlb(serial,
                                 [board |-> p_gen.board, block1 |-> b1, block2 |-> b2])]
    /\ UNCHANGED <<p_config, p_gen, p_cpu, p_dir, front_vars, dl_vars>>

InitPure ==
    /\ steps = <<>>
    /\ execute = FALSE
    /\ on_step = FALSE
    /\ idx = 0
    /\ results = <<>>
    /\ xpc = "idle"
    /\ ret = None
    /\ caller = "none"
    /\ plan_config = None
    /\ host_ready = TRUE
    /\ assets = {}
    /\ argv = None
    /\ exit_code = NoExit
    /\ snapshot = None
    /\ form = BaseConfig
    /\ last_config = None
    /\ last_steps = <<>>
    /\ apply_running = FALSE
    /\ preflight_has_run = FALSE
    /\ preflight_ok = FALSE
    /\ wpc = "none"
    /\ w_execute = FALSE
    /\ applies = 0
    /\ log = <<>>
    /\ DownloaderIdle
    /\ fs = [p \in Paths |-> Absent]
    /\ p_pc = "init"
    /\ p_config \in PureConfigSamples
    /\ p_gen \in GenSamples
    /\ p_cpu \in CpuSamples
    /\ p_dir \in DirSamples
    /\ p_out = None

NextPure ==
    \/ CallValidateConfig
    \/ CallBuildPlan
    \/ CallResolveOpencore
    \/ CallDetectIsoStorage

SpecPure == InitPure /\ [][NextPure]_vars

InitSmbios ==
    /\ steps = <<>>
    /\ execute = FALSE
    /\ on_step = FALSE
    /\ idx = 0
    /\ results = <<>>
    /\ xpc = "idle"
    /\ ret = None
    /\ caller = "none"
    /\ plan_config = None
    /\ host_ready = TRUE
    /\ assets = {}
    /\ argv = None
    /\ exit_code = NoExit
    /\ snapshot = None
    /\ form = BaseConfig
    /\ last_config = None
    /\ last_steps = <<>>
    /\ apply_running = FALSE
    /\ preflight_has_run = FALSE
    /\ preflight_ok = FALSE
    /\ wpc = "none"
    /\ w_execute = FALSE
    /\ applies = 0
    /\ log = <<>>
    /\ DownloaderIdle
    /\ fs = [p \in Paths |-> Absent]
    /\ p_pc = "init_smbios"
    /\ p_config = None
    /\ p_gen \in MfgDraws
    /\ p_cpu = None
    /\ p_dir = {}
    /\ p_out = None

NextSmbios ==
    \/ CallGenerateSmbios
    \/ CallGenerateMlb

SpecSmbios == InitSmbios /\ [][NextSmbios]_vars

InitAssets ==
    /\ steps = <<>>
    /\ execute = FALSE
    /\ on_step = FALSE
    /\ idx = 0
    /\ results = <<>>
    /\ xpc = "idle"
    /\ ret = None
    /\ caller = "none"
    /\ plan_config = None
    /\ host_ready = TRUE
    /\ assets = {}
    /\ argv = None
    /\ exit_code = NoExit
    /\ snapshot = None
    /\ form = BaseConfig
    /\ last_config = None
    /\ last_steps = <<>>
    /\ apply_running = FALSE
    /\ preflight_has_run = FALSE
    /\ preflight_ok = FALSE
    /\ wpc = "none"
    /\ w_execute = FALSE
    /\ applies = 0
    /\ log = <<>>
    /\ DownloaderIdle
    /\ fs = [p \in Paths |-> Absent]
    /\ p_pc = "init_assets"
    /\ p_config \in [macos : DOMAIN SUPPORTED_MACOS, iso_dir : IsoDirSamples]
    /\ p_gen \in [pvesm : PvesmSamples, succeed : SUBSET {"opencore", "recovery"}]
    /\ p_cpu = None
    /\ p_dir \in TreeSamples
    /\ p_out = None

NextAssets ==
    \/ CallAutoDownload

SpecAssets == InitAssets /\ [][NextAssets]_vars

\* ------------------------------------------------------------------------
\* properties of build_plan, validate_config and the asset resolver
\* ------------------------------------------------------------------------

\* domain.py: the regular expression validate_config applies to each field
FieldMatches(f) ==
    CASE f.field = "name" -> MatchName(f.value)
      [] f.field = "bridge" -> MatchBridge(f.value)
      [] f.field = "storage" -> MatchPlus(f.value, AlNum \cup {"_", "-"})
      [] f.field = "installer_path" -> MatchPlus(f.value, AlNum \cup {"/", ".", "_", "-"})
      [] f.field = "smbios_serial" -> MatchExactly(f.value, UpperAZ \cup Digits, 12)
      [] f.field = "smbios_mlb" -> MatchExactly(f.value, UpperAZ \cup Digits, 17)
      [] f.field = "smbios_rom" -> MatchExactly(f.value, HexUpper, 12)
      [] f.field = "smbios_uuid" -> MatchUuid(f.value)
      [] f.field = "smbios_model" ->
           Len(f.value) \in 1..20 /\ AllIn(f.value, AlNum \cup {","})
      [] f.field = "cpu_model" -> MatchPlus(f.value, AlNum \cup {"-"})
      [] f.field = "static_mac" -> MatchMac(f.value)
      [] f.field = "vmgenid" -> MatchUuid(f.value)

Built == p_pc = "build_plan" /\ ~p_out.raised

\* C12: in a plan built from a configuration that passed validate_config,
\* every VmConfig field value a step's command embeds, the generated
\* identity values included, matches the validator's regex for its field.
C12_EmbeddedFieldsMatchRegex ==
    (Built /\ validate_config(p_config) = <<>>) =>
        \A i \in 1..Len(p_out.steps) :
            \A f \in p_out.steps[i].fields : FieldMatches(f)

\* C13: build_plan leaves the configuration it was given as it was: after
\* the call every field has the value it had before.
C13_PlannerReadsOnly ==
    p_pc = "build_plan" => p_out.config = p_config

\* the titles every plan has to carry, in their order
RequiredTitles ==
    <<"Create VM shell", "Apply macOS hardware profile", "Build OpenCore boot disk",
      "Import and attach OpenCore disk", "Stamp recovery with Apple icon flavour",
      "Import and attach macOS recovery", "Set boot order", "Start VM">>

Positions(plan, title) == {i \in 1..Len(plan) : plan[i].title = title}

\* C14: the plan of a valid configuration, for every supported release and
\* host CPU, holds each of the eight required titles exactly once and in the
\* required relative order, "Create VM shell" first and "Start VM" last.
C14_RequiredStepsInOrder ==
    (Built /\ validate_config(p_config) = <<>>) =>
        /\ \A k \in 1..Len(RequiredTitles) :
              Cardinality(Positions(p_out.steps, RequiredTitles[k])) = 1
        /\ \A k \in 1..Len(RequiredTitles), l \in 1..Len(RequiredTitles) :
              k < l => \A i \in Positions(p_out.steps, RequiredTitles[k]),
                          j \in Positions(p_out.steps, RequiredTitles[l]) : i < j
        /\ p_out.steps[1].title = "Create VM shell"
        /\ p_out.steps[Len(p_out.steps)].title = "Start VM"

\* a plan for the newest release that also carries the optional steps
C14_Witness ==
    /\ Built
    /\ validate_config(p_config) = <<>>
    /\ p_config.macos = "tahoe"
    /\ p_config.apple_services
    /\ p_cpu.vendor = "AMD"
    /\ Len(p_out.steps) > Len(RequiredTitles)

IsPowerOfTwo(n) == \E k \in 0..20 : n = 2^k

\* C15: validate_config accepts a cores value only if it is at least 2 and
\* a power of two; any other value yields a non-empty issue list.
C15_CoresPowerOfTwo ==
    (p_pc = "validate_config" /\ ~(p_config.cores >= 2 /\ IsPowerOfTwo(p_config.cores)))
        => p_out.issues # <<>>

\* the optional string fields, checked only when non-empty
OptionalFields ==
    {"installer_path", "smbios_serial", "smbios_mlb", "smbios_rom", "smbios_uuid",
     "smbios_model", "cpu_model", "static_mac", "vmgenid"}

\* the field constraints, one by one (for cores: at least 2)
SatisfiesConstraints(c) ==
    /\ c.vmid \in 100..999999
    /\ Len(c.name) >= 3
    /\ FieldMatches(Field("name", c.name))
    /\ c.macos \in {"ventura", "sonoma", "sequoia", "tahoe"}
    /\ c.cores >= 2
    /\ c.memory_mb >= 4096
    /\ c.disk_gb >= 64
    /\ FieldMatches(Field("bridge", c.bridge))
    /\ c.storage # <<>>
    /\ FieldMatches(Field("storage", c.storage))
    /\ \A f \in OptionalFields : c[f] = <<>> \/ FieldMatches(Field(f, c[f]))

\* C16: validate_config returns the empty list exactly for the
\* configurations that satisfy every field constraint, a non-empty list for
\* every other, the same list for the same configuration, and leaves the
\* configuration as it was.
C16_ValidateDecidesConstraints ==
    p_pc = "validate_config" =>
        /\ (p_out.issues = <<>>) <=> SatisfiesConstraints(p_config)
        /\ p_out.issues = validate_config(p_config)
        /\ p_out.config = p_config

\* a configuration that breaks three constraints at once
C16_Witness ==
    /\ p_pc = "validate_config"
    /\ p_config.vmid < 100
    /\ p_config.cores < 2
    /\ p_config.storage = <<>>
    /\ Len(p_out.issues) = 3

FieldsOf(plan, title) == UNION {plan[i].fields : i \in Positions(plan, title)}
ValuesOf(plan, title, field) == {f.value : f \in {g \in FieldsOf(plan, title) : g.field = field}}

\* C17: in a plan built with apple_services from a valid configuration, the
\* MAC of the "Configure static MAC for Apple services" step, colons removed
\* and upper-cased, is the ROM stored in the configuration and the ROM the
\* OpenCore build script writes into PlatformInfo, wherever the MAC came from.
C17_RomIsMacWithoutColons ==
    (Built /\ p_config.apple_services /\ validate_config(p_config) = <<>>) =>
        \A mac \in ValuesOf(p_out.steps, "Configure static MAC for Apple services", "static_mac") :
            /\ p_out.config.smbios_rom = Upper(Without(mac, ":"))
            /\ Len(p_out.config.smbios_rom) = 12
            /\ \A rom \in ValuesOf(p_out.steps, "Build OpenCore boot disk", "smbios_rom") :
                  rom = Upper(Without(mac, ":"))

\* the user supplied a MAC and a ROM that does not belong to it, and the
\* OpenCore build script writes PlatformInfo
C17_Witness ==
    /\ Built
    /\ p_config.apple_services
    /\ validate_config(p_config) = <<>>
    /\ p_config.static_mac # <<>>
    /\ p_config.smbios_rom # <<>>
    /\ p_config.smbios_rom # Upper(Without(p_config.static_mac, ":"))
    /\ ValuesOf(p_out.steps, "Configure static MAC for Apple services", "static_mac")
          = {p_config.static_mac}
    /\ ValuesOf(p_out.steps, "Build OpenCore boot disk", "smbios_rom") # {}

\* the position of the earliest pattern a matching file name matches
PatternRank(name, patterns) ==
    CHOOSE k \in 1..Len(patterns) :
        /\ fnmatch(Lower(name), Lower(patterns[k]))
        /\ \A j \in 1..(k - 1) : ~fnmatch(Lower(name), Lower(patterns[j]))

\* C20: of several matching files in the search root the resolver returns
\* one that matches the earliest pattern of the priority list: no other file
\* of the directory matches an earlier pattern than the returned one.
C20_EarliestPatternWins ==
    (p_pc = "resolve_opencore_path" /\ p_out.found /\ p_config.macos \in DOMAIN SUPPORTED_MACOS) =>
        \A g \in p_dir :
            MatchesAny(g, OpencorePatterns(p_config.macos)) =>
                PatternRank(p_out.name, OpencorePatterns(p_config.macos))
                    <= PatternRank(g, OpencorePatterns(p_config.macos))

\* ------------------------------------------------------------------------
\* properties of the command-line front-end
\* ------------------------------------------------------------------------

CliExited == caller = "exited" /\ argv # None

\* some download of a `download` run did not deliver its file
SomeDownloadFailed ==
    \E i \in 1..Len(log) :
        /\ log[i].ev \in {"download_opencore", "download_recovery"}
        /\ log[i].result # [outcome |-> "ok"]

\* the exit code each outcome of a command is to produce
ExpectedExit ==
    CASE argv.cmd \in {"plan", "apply"} ->
           IF validate_config(argv.config) # <<>> THEN 2
           ELSE IF Missing(argv.config, assets) # <<>> THEN 3
           ELSE IF argv.cmd = "plan" THEN 0
           ELSE IF xpc = "returned" /\ ret.ok THEN 0
           ELSE 4
      [] argv.cmd = "uninstall" ->
           IF argv.vmid < 100 \/ argv.vmid > 999999 THEN 2
           ELSE IF ~argv.execute THEN 0
           ELSE IF xpc = "idle" THEN 2
           ELSE IF xpc = "returned" /\ ret.ok THEN 0
           ELSE 6
      [] argv.cmd = "download" ->
           IF SomeDownloadFailed THEN 5 ELSE 0

\* C18: the exit code of the CLI is the one its outcome calls for: 0 on
\* success (a dry run included), 2 for a validation error, 3 when a required
\* asset is still missing after the auto-download, 4 when the applied plan
\* fails, 5 when a requested download fails, 6 when the destroy plan fails.
C18_ExitCodeByOutcome ==
    CliExited => exit_code = ExpectedExit

Uninstalling == argv # None /\ argv.cmd = "uninstall"

\* apply_plan has been entered or a command has been handed to the adapter
ExecutorInvoked ==
    \/ xpc # "idle"
    \/ \E i \in 1..Len(log) : log[i].ev \in {"apply_plan", "run"}

VmFound ==
    \E i \in 1..Len(log) :
        log[i] = Event("fetch_vm_info", argv.vmid, [found |-> TRUE])

VmNotFound ==
    \E i \in 1..Len(log) :
        log[i] = Event("fetch_vm_info", argv.vmid, [found |-> FALSE])

\* C19: `uninstall` hands no stop or destroy command to the executor unless
\* --execute is given, the VMID is within 100..999999 and the VM was found;
\* without --execute it only shows the two steps of the destroy plan (Stop
\* VM, Destroy VM, --purge as requested) and returns 0, and an out-of-range
\* VMID or a VM that is not found returns 2 with the executor not invoked.
C19_UninstallGuards ==
    Uninstalling =>
        /\ ExecutorInvoked =>
              (argv.execute /\ argv.vmid \in 100..999999 /\ VmFound
                 /\ execute /\ steps = build_destroy_plan(argv.vmid, argv.purge))
        /\ (caller = "exited" /\ ~argv.execute /\ argv.vmid \in 100..999999) =>
              /\ exit_code = 0
              /\ log = <<Event("build_destroy_plan", argv.vmid, None)>>
              /\ LET plan == build_destroy_plan(argv.vmid, argv.purge)
                 IN /\ Len(plan) = 2
                    /\ plan[1].title = "Stop VM"
                    /\ plan[2].title = "Destroy VM"
                    /\ plan[2].purge = argv.purge
        /\ (caller = "exited" /\ argv.vmid \notin 100..999999) =>
              (exit_code = 2 /\ log = <<>>)
        /\ (caller = "exited" /\ argv.execute /\ VmNotFound /\ exit_code # 1) =>
              exit_code = 2

\* --execute for a VMID in range, and the hypervisor knows no such VM
C19_Witness ==
    /\ Uninstalling
    /\ caller = "exited"
    /\ argv.execute
    /\ argv.vmid \in 100..999999
    /\ VmNotFound
    /\ exit_code = 2
    /\ ~ExecutorInvoked

\* ------------------------------------------------------------------------
\* further properties of the downloader
\* ------------------------------------------------------------------------

\* the image names that serve every release (assets.py lists them ahead of
\* the per-release name)
UniversalNames == {"OpenCore-v21.iso", "opencore-v21.iso", "opencore-osx-proxmox-vm.iso"}

HasAsset(rel, names) ==
    \E a \in rel : a.name \in names /\ a.browser_download_url # ""

\* C21: download_opencore takes the per-release asset of the release or,
\* when the release has none, a universal image; it raises DownloadError
\* for a missing asset only when the release carries neither.
C21_UniversalImageFallback ==
    (flow = "opencore" /\ release # None
        /\ fpc = "raised" /\ dl_error = DownloadError("Asset not found in release"))
    => ~HasAsset(release.assets, {AssetName} \cup UniversalNames)

\* ------------------------------------------------------------------------
\* properties of detect_iso_storage and of the SMBIOS generators
\* ------------------------------------------------------------------------

\* C22: detect_iso_storage returns a non-empty list whose first element is
\* the default ISO directory, whatever the hypervisor reports, in whatever
\* order, and also when the query fails.
C22_DefaultIsoDirFirst ==
    p_pc = "detect_iso_storage" =>
        (p_out.dirs # <<>> /\ p_out.dirs[1] = DEFAULT_ISO_DIR)

\* C23: every MLB produced in Apple-services mode, by generate_smbios and by
\* generate_mlb for a generated Apple-format serial, has 17 base-34
\* characters and a mod-34 alternating-weight sum of 0, for every country,
\* year, week, block and board.
C23_MlbChecksum ==
    p_pc \in {"generate_smbios", "generate_mlb"} =>
        /\ Len(p_out.mlb) = 17
        /\ \A i \in 1..Len(p_out.mlb) : \E k \in 1..Len(BASE34) : BASE34[k] = p_out.mlb[i]
        /\ verify_mlb_checksum(p_out.mlb)

\* an MLB derived from a serial of the second half of a year, with a
\* checksum digit other than 0
C23_Witness ==
    /\ p_pc = "generate_mlb"
    /\ p_gen.week > 26
    /\ Len(p_out.serial) = 12
    /\ p_out.mlb[17] # "0"

\* ------------------------------------------------------------------------
\* properties of the TUI wizard
\* ------------------------------------------------------------------------

CountEvents(ev) == Cardinality({i \in 1..Len(log) : log[i].ev = ev})

\* worker threads started and not yet through _finish_apply
ActiveWorkers == CountEvents("thread_start") - CountEvents("finish_apply")

\* C24: in the TUI at most one apply is in progress at any time: a request
\* made while an apply is running starts no worker, so there is never a
\* second worker next to one that has not finished, and the busy flag is
\* set exactly while a worker is unfinished.
C24_OneApplyAtATime ==
    caller = "tui" =>
        /\ ActiveWorkers \in {0, 1}
        /\ apply_running <=> ActiveWorkers = 1
        /\ apply_running <=> wpc # "none"

\* a live apply is in the middle of a command; Apply requests made now
\* leave everything as it is
C24_Witness ==
    /\ caller = "tui"
    /\ apply_running
    /\ w_execute
    /\ wpc = "in_apply"
    /\ xpc = "run"
    /\ ENABLED TuiApply

\* the worker thread and the executor it runs keep being scheduled
WorkerProgress ==
    /\ WF_vars(WorkerSnapshot /\ UNCHANGED <<dl_vars, pure_vars>>)
    /\ WF_vars(WorkerApply /\ UNCHANGED <<dl_vars, pure_vars>>)
    /\ WF_vars(WorkerFinish /\ UNCHANGED <<dl_vars, pure_vars>>)
    /\ WF_vars(LoopStep /\ UNCHANGED <<dl_vars, pure_vars>>)
    /\ WF_vars(RunStep /\ UNCHANGED <<dl_vars, pure_vars>>)
    /\ WF_vars(LoopExit /\ UNCHANGED <<dl_vars, pure_vars>>)

SpecLive == Init /\ [][Next]_vars /\ WorkerProgress

\* C25: every apply started in the TUI eventually releases its busy flag:
\* once apply_running is set it becomes false again, whatever the snapshot
\* and the plan's commands do (success, non-zero return code, timeout, or a
\* command that cannot be launched).
C25_BusyFlagReleased ==
    (caller = "tui" /\ apply_running) ~> ~apply_running

\* the configuration read from the form by the latest Apply request that
\* started a worker
RequestedConfig ==
    LET k == CHOOSE i \in 1..Len(log) :
                /\ log[i].ev = "thread_start"
                /\ \A j \in (i + 1)..Len(log) : log[j].ev # "thread_start"
    IN log[k].result.config

\* C26: the plan a TUI apply executes is the plan of the configuration that
\* was in the form when the apply was requested, and the VMID snapshotted
\* is that configuration's, also when the form was changed after a plan had
\* been generated.
C26_AppliesRequestedConfig ==
    (caller = "tui" /\ xpc # "idle") =>
        /\ steps = build_plan(RequestedConfig).steps
        /\ (execute => snapshot = RollbackSnapshot(RequestedConfig.vmid))

\* the events of the current apply: those after the latest plan build (CLI)
\* or worker start (TUI)
SinceApplyBegan ==
    LET marks == {i \in 1..Len(log) : log[i].ev \in {"build_plan", "thread_start"}}
        from == IF marks = {} THEN 0
                ELSE CHOOSE i \in marks : \A j \in marks : j <= i
    IN {log[j].ev : j \in (from + 1)..Len(log)}

DryApplyBegun ==
    \/ /\ argv # None /\ argv.cmd = "apply" /\ ~argv.execute
       /\ caller \in {"cli", "exited"}
       /\ \E i \in 1..Len(log) : log[i].ev = "build_plan"
    \/ caller = "tui" /\ applies > 0 /\ ~w_execute

\* C30: a dry-run apply neither changes nor queries the hypervisor: from the
\* moment the plan is built until the apply ends, `apply` without --execute
\* and the TUI's Apply Dry take no snapshot and run no command.
C30_DryRunTouchesNothing ==
    DryApplyBegun => SinceApplyBegan \cap {"create_snapshot", "run"} = {}

\* ------------------------------------------------------------------------
\* Properties of the downloaded files
\* ------------------------------------------------------------------------

\* the recovery image holds less than the conversion of the whole DMG
PartiallyWritten(img, dmg) == img.exists /\ Len(img.data) < Len(dmg.data)

\* C27: while download_recovery runs, and after it has raised, the final
\* name <release>-recovery.img never names a partially written image: the
\* image is either absent or complete, also while dmg2img is running.
C27_ImageVisibleOnlyWhenComplete ==
    (flow = "recovery" /\ fpc \notin {"idle", "returned"})
        => ~PartiallyWritten(fs[RecoveryDest], fs[DmgPath])

\* C28: when the server announced a Content-Length, an attempt is counted
\* as successful and its file renamed to dest only with that many bytes
\* received.
C28_LengthVerified ==
    (dpc = "returned" /\ total > 0) => Len(fs[dl_dest].data) = total

AllOk(checks) == \A i \in 1..Len(checks) : checks[i].ok

====
